---- MODULE Spec2Model ----
(***************************************************************************)
(* A model of the mixed-reality core of bulgakov_game:                     *)
(*   - PlaneMapper (src/src/mr/mapping/plane-mapper.ts): RANSAC plane fit, *)
(*     surface fusion, decay and pruning;                                  *)
(*   - createTrackingController (src/unnamed/part_003, second half): the   *)
(*     pose-source lifecycle, the status machine and the per-tick update;  *)
(*   - startApp (src/src/app/app.ts): the frame loop, the Start and Stop   *)
(*     handlers and the asynchronous depth request.                        *)
(*                                                                         *)
(* Numbers are fixed point.  Lengths are in centimetres, unit vectors and  *)
(* confidences in thousandths, plane constants in 1e-5 m (thousandths of a *)
(* centimetre, the unit of normal . point), times in milliseconds.         *)
(***************************************************************************)
EXTENDS Integers, Sequences, FiniteSets, TLC

VARIABLES
    now,          \* performance.now(), ms
    surfaces,     \* PlaneMapper.surfaces
    plane,        \* updateFromDepth's local `plane` of the latest call (Null: no fit)
    existing,     \* updateFromDepth's local `existing` of the latest call: an index, 0 for null
    fed,          \* what updateFromDepth was fed so far: [calls, first, same]
    ctl,          \* the closure state of createTrackingController
    starts,       \* the start() calls: where each one is
    env,          \* the platform: [module, sensors, permApi, reset, video, resets]
    app,          \* startApp's closure state: [activeStream, runDepth, mode, lastT, lastDepthT]
    depthReqs,    \* the depth estimates in flight, each with the `pose` its callback captured
    handed,       \* the arguments recorded of the latest planeMapper.updateFromDepth call
    returned      \* what the latest getPose, getPlane, getFramePoints or getStats call returned

mapVars == <<surfaces, plane, existing, fed>>
ctlVars == <<ctl, starts, env>>
appVars == <<app, depthReqs, handed, returned>>

\* null, where a record may stand
Null == [null |-> TRUE]

(***************************************************************************)
(* Bounds of the model.                                                    *)
(***************************************************************************)
MaxNow == 6000           \* the clock stops advancing here
MaxCalls == 3            \* updateFromDepth calls in one behaviour
ransacIterations == 2    \* opts.ransacIterations (a PlaneMapper option; the default is 60)
MaxDecayCalls == 5       \* updateFromDepth calls in one behaviour of SpecDecay

(***************************************************************************)
(* Program constants, in the model's units.                                *)
(***************************************************************************)
One == 1000              \* 1.0 in thousandths
MinPoints == 30          \* points.length < 30: abort
MinInliers == 40         \* bestInliers.length < 40: no plane
InlierThreshold == 4000  \* opts.inlierThreshold 0.04 m, in 1e-5 m
DegenerateLenSq == 100   \* normal.lengthSq() < 1e-6 m^4, in cm^4
MinExtent == 30          \* let extent = 0.3 (m), in cm
MaxExtent == 200         \* Math.min(2.0, extent), in cm
AlignMin == 920000       \* align < 0.92, in 1e-6
DistMax == 25000         \* dist < 0.25 m, in 1e-5 m
MinNewConfidence == 500  \* Math.max(0.5, plane.confidence)
PruneFloor == 200        \* s.confidence > 0.2
maxSurfaceAgeMs == 5000  \* opts.maxSurfaceAgeMs
confidenceDecay == 920   \* opts.confidenceDecay 0.92

(***************************************************************************)
(* Arithmetic helpers: the fixed-point forms of the float operations.      *)
(***************************************************************************)
Abs(x) == IF x < 0 THEN -x ELSE x
Min(a, b) == IF a < b THEN a ELSE b
Max(a, b) == IF a > b THEN a ELSE b

\* a / b rounded to the nearest integer (b > 0), half away from zero.
RoundDiv(a, b) == IF a >= 0 THEN (2 * a + b) \div (2 * b) ELSE -((2 * (-a) + b) \div (2 * b))

\* The largest of lo, lo + step, ..., lo + 15 * step whose square is at most v (46340 is
\* the largest root of a 32-bit value).
SqrtSearch(v, lo, step) ==
    CHOOSE g \in {lo + i * step : i \in 0..15} :
        /\ g <= 46340
        /\ g * g <= v
        /\ g + step > 46340 \/ (g + step) * (g + step) > v

\* The integer part of the square root of v >= 0, one base-16 digit at a time.
SqrtFloor(v) ==
    {SqrtSearch(v, c, 1) :
        c \in {SqrtSearch(v, b, 16) :
                  b \in {SqrtSearch(v, a, 256) : a \in {SqrtSearch(v, 0, 4096)}}}}

\* Math.sqrt, rounded to the nearest integer.
ISqrt(n) ==
    CHOOSE r \in UNION {{IF v - f * f > f THEN f + 1 ELSE f : f \in SqrtFloor(v)} :
                           v \in {Max(n, 0)}} : TRUE

\* THREE.MathUtils.lerp(x, y, t) with t = tNum/tDen.
Lerp(x, y, tNum, tDen) == x + RoundDiv((y - x) * tNum, tDen)

\* THREE.MathUtils.clamp
Clamp(x, lo, hi) == Max(lo, Min(hi, x))

(***************************************************************************)
(* THREE.Vector3                                                           *)
(***************************************************************************)
VSub(a, b) == <<a[1] - b[1], a[2] - b[2], a[3] - b[3]>>
VAdd(a, b) == <<a[1] + b[1], a[2] + b[2], a[3] + b[3]>>
VDot(a, b) == a[1] * b[1] + a[2] * b[2] + a[3] * b[3]
VCross(a, b) ==
    <<a[2] * b[3] - a[3] * b[2], a[3] * b[1] - a[1] * b[3], a[1] * b[2] - a[2] * b[1]>>
VLengthSq(a) == VDot(a, a)
VLerp(a, b, tNum, tDen) ==
    <<Lerp(a[1], b[1], tNum, tDen), Lerp(a[2], b[2], tNum, tDen), Lerp(a[3], b[3], tNum, tDen)>>

\* Vector3.normalize(): the vector divided by its length (|| 1), in thousandths.
VNormalize(a) ==
    LET len == ISqrt(VLengthSq(a))
        d == IF len = 0 THEN 1 ELSE len
    IN <<RoundDiv(a[1] * One, d), RoundDiv(a[2] * One, d), RoundDiv(a[3] * One, d)>>

\* Vector3.distanceTo, in cm.
VDistance(a, b) == ISqrt(VLengthSq(VSub(a, b)))

(***************************************************************************)
(* Point clouds: the arrays samplePoints returns.  A cloud is a sequence   *)
(* of entries [p |-> position in cm, n |-> how many array elements lie at  *)
(* that position]; points.length is the sum of the n.                      *)
(***************************************************************************)
Pt(x, y, z, n) == [p |-> <<x, y, z>>, n |-> n]

Clouds ==
    << \* 1: 45 points on the plane z = 10
       <<Pt(0, 0, 10, 15), Pt(40, 0, 10, 15), Pt(0, 40, 10, 15)>>,
       \* 2: 45 points on a plane tilted 16 degrees against cloud 1, 4 mm away
       <<Pt(0, 0, 10, 15), Pt(40, 0, 10, 15), Pt(0, 24, 3, 15)>>,
       \* 3: 45 points on the plane z = 40 (parallel to cloud 1, 30 cm away)
       <<Pt(0, 0, 40, 15), Pt(40, 0, 40, 15), Pt(0, 40, 40, 15)>>,
       \* 4: 48 points on the plane x = 0
       <<Pt(0, 0, 0, 16), Pt(0, 40, 0, 16), Pt(0, 0, 40, 16)>>,
       \* 5: 24 points: fewer than MinPoints
       <<Pt(0, 0, 10, 8), Pt(40, 0, 10, 8), Pt(0, 40, 10, 8)>>,
       \* 6: 36 points: enough points, fewer than MinInliers
       <<Pt(0, 0, 10, 12), Pt(40, 0, 10, 12), Pt(0, 40, 10, 12)>> >>

CloudIds == 1..Len(Clouds)

\* The values `surface_${Math.random().toString(36).slice(2, 9)}` takes in the model.
SurfaceIds == {"surface_a", "surface_b"}

\* The entries of points at positions lo..hi that are in ks, added up by halves.
RECURSIVE CountIn(_, _, _, _)
CountIn(points, ks, lo, hi) ==
    IF lo > hi THEN 0
    ELSE IF lo = hi THEN (IF lo \in ks THEN points[lo].n ELSE 0)
    ELSE LET mid == (lo + hi) \div 2
         IN CountIn(points, ks, lo, mid) + CountIn(points, ks, mid + 1, hi)

SumN(points, k) == CountIn(points, 1..k, 1, k)

\* points.length
NumPoints(points) == SumN(points, Len(points))

(***************************************************************************)
(* ransacPlane                                                             *)
(***************************************************************************)
\* The inliers of a plane: the entries within the threshold of it.
Inliers(points, normal, constant) ==
    {k \in 1..Len(points) : Abs(VDot(normal, points[k].p) + constant) <= InlierThreshold}

CountOf(points, ks) == CountIn(points, ks, 1, Len(points))

RECURSIVE SumIn(_, _, _, _)
SumIn(points, ks, lo, hi) ==
    IF lo > hi THEN <<0, 0, 0>>
    ELSE IF lo = hi
         THEN (IF lo \in ks
               THEN LET q == points[lo] IN <<q.p[1] * q.n, q.p[2] * q.n, q.p[3] * q.n>>
               ELSE <<0, 0, 0>>)
    ELSE LET mid == (lo + hi) \div 2
         IN VAdd(SumIn(points, ks, lo, mid), SumIn(points, ks, mid + 1, hi))

SumOf(points, ks) == SumIn(points, ks, 1, Len(points))

RECURSIVE MaxDistIn(_, _, _, _, _)
MaxDistIn(points, ks, center, lo, hi) ==
    IF lo > hi THEN MinExtent
    ELSE IF lo = hi
         THEN (IF lo \in ks THEN Max(VDistance(points[lo].p, center), MinExtent)
               ELSE MinExtent)
    ELSE LET mid == (lo + hi) \div 2
         IN Max(MaxDistIn(points, ks, center, lo, mid),
                MaxDistIn(points, ks, center, mid + 1, hi))

MaxDist(points, ks, center) == MaxDistIn(points, ks, center, 1, Len(points))

NoBest == [count |-> 0, inliers |-> {}, normal |-> <<0, 0, 0>>, constant |-> 0, found |-> FALSE]

\* One iteration of the loop, for the drawn triple of array positions.
RansacIteration(points, best, draw) ==
    LET a == points[draw[1]].p
        b == points[draw[2]].p
        c == points[draw[3]].p
        cross == VCross(VSub(b, a), VSub(c, a))
        normal == VNormalize(cross)
        constant == -VDot(normal, a)
        inliers == Inliers(points, normal, constant)
        count == CountOf(points, inliers)
    IN IF VLengthSq(cross) < DegenerateLenSq THEN best
       ELSE IF count > best.count
            THEN [count |-> count, inliers |-> inliers, normal |-> normal,
                  constant |-> constant, found |-> TRUE]
            ELSE best

RECURSIVE RansacLoop(_, _, _, _)
RansacLoop(points, best, draws, i) ==
    IF i > Len(draws) THEN best
    ELSE RansacLoop(points, RansacIteration(points, best, draws[i]), draws, i + 1)

\* ransacPlane for the triples `draws` that Math.random yields: a candidate, or Null.
RansacPlane(points, draws) ==
    LET best == RansacLoop(points, NoBest, draws, 1)
    IN IF ~best.found \/ best.count < MinInliers THEN Null
       ELSE LET sum == SumOf(points, best.inliers)
                center == <<RoundDiv(sum[1], best.count), RoundDiv(sum[2], best.count),
                            RoundDiv(sum[3], best.count)>>
                extent == MaxDist(points, best.inliers, center)
            IN [normal |-> best.normal,
                constant |-> best.constant,
                center |-> center,
                extent |-> Min(MaxExtent, extent),
                confidence |-> Clamp(RoundDiv(1600 * best.count, Max(1, NumPoints(points))),
                                     300, One)]

\* Every sequence of triples the loop can draw from a cloud.
DrawSeqs(points) ==
    [1..ransacIterations -> (1..Len(points)) \X (1..Len(points)) \X (1..Len(points))]

\* What ransacPlane can return for each cloud, over all draws.
RansacOutcomes == [c \in CloudIds |-> {RansacPlane(Clouds[c], d) : d \in DrawSeqs(Clouds[c])}]

(***************************************************************************)
(* findSimilarSurface: the index of the first similar surface, 0 for null. *)
(***************************************************************************)
RECURSIVE FindFrom(_, _, _, _)
FindFrom(list, normal, constant, i) ==
    IF i > Len(list) THEN 0
    ELSE IF VDot(list[i].normal, normal) < AlignMin THEN FindFrom(list, normal, constant, i + 1)
    ELSE IF Abs(list[i].constant - constant) < DistMax THEN i
    ELSE FindFrom(list, normal, constant, i + 1)

\* A findSimilarSurface without the distance test: the first aligned surface.
RECURSIVE FindAlignedFrom(_, _, _)
FindAlignedFrom(list, normal, i) ==
    IF i > Len(list) THEN 0
    ELSE IF VDot(list[i].normal, normal) >= AlignMin THEN i
    ELSE FindAlignedFrom(list, normal, i + 1)

FindAlignedSurface(list, normal, constant) == FindAlignedFrom(list, normal, 1)

FindSimilarSurface(list, normal, constant) == FindFrom(list, normal, constant, 1)

(***************************************************************************)
(* decayAndPrune                                                           *)
(***************************************************************************)
RECURSIVE PowSeconds(_)
PowSeconds(k) == IF k = 0 THEN 1000000 ELSE (PowSeconds(k - 1) * confidenceDecay) \div One

\* Math.pow(opts.confidenceDecay, age / 1000) in millionths: exact powers for the
\* whole seconds, linear in between.
PowDecay(age) ==
    LET k == age \div 1000
        r == age % 1000
        lo == PowSeconds(k)
        hi == PowSeconds(k + 1)
    IN lo - ((lo - hi) * r) \div 1000

\* A decay step that would raise the confidence with the age instead of lowering it.
Ripened(s, t) ==
    LET age == t - s.lastSeen
    IN IF age > 0
       THEN [s EXCEPT !.confidence = s.confidence + age \div 100]
       ELSE s

Decayed(s, t) ==
    LET age == t - s.lastSeen
    IN IF age > 0
       THEN [s EXCEPT !.confidence = Max(0, RoundDiv(s.confidence * (PowDecay(age) \div 1000), 1000))]
       ELSE s

\* A filter that would look at the age only.
KeepsYoung(s, t) == t - s.lastSeen <= maxSurfaceAgeMs

Keeps(s, t) == t - s.lastSeen <= maxSurfaceAgeMs /\ s.confidence > PruneFloor

\* Array.prototype.sort with (a, b) => b.confidence - a.confidence: stable, descending.
RECURSIVE InsertSorted(_, _)
InsertSorted(sorted, s) ==
    IF sorted = <<>> THEN <<s>>
    ELSE IF Head(sorted).confidence >= s.confidence
         THEN <<Head(sorted)>> \o InsertSorted(Tail(sorted), s)
         ELSE <<s>> \o sorted

RECURSIVE SortByConfidence(_, _)
SortByConfidence(list, k) ==
    IF k = 0 THEN <<>> ELSE InsertSorted(SortByConfidence(list, k - 1), list[k])

\* decayAndPrune as it would be without the sort of line 185.
DecayAndFilter(list, t) ==
    LET decayed == [i \in 1..Len(list) |-> Decayed(list[i], t)]
    IN SelectSeq(decayed, LAMBDA s : Keeps(s, t))

DecayAndPrune(list, t) ==
    LET decayed == [i \in 1..Len(list) |-> Decayed(list[i], t)]
        kept == SelectSeq(decayed, LAMBDA s : Keeps(s, t))
    IN SortByConfidence(kept, Len(kept))

(***************************************************************************)
(* updateFromDepth                                                         *)
(***************************************************************************)
\* A fusion that blends the normals and leaves the blend as it is.
FusedUnnormalized(s, pl, t) ==
    [s EXCEPT !.normal = VLerp(s.normal, pl.normal, 2, 10),
              !.constant = Lerp(s.constant, pl.constant, 2, 10),
              !.center = VLerp(s.center, pl.center, 2, 10),
              !.extent = Lerp(s.extent, pl.extent, 2, 10),
              !.confidence = Min(One, Lerp(s.confidence, pl.confidence, 4, 10) + 100),
              !.lastSeen = t]

Fused(s, pl, t) ==
    [s EXCEPT !.normal = VNormalize(VLerp(s.normal, pl.normal, 2, 10)),
              !.constant = Lerp(s.constant, pl.constant, 2, 10),
              !.center = VLerp(s.center, pl.center, 2, 10),
              !.extent = Lerp(s.extent, pl.extent, 2, 10),
              !.confidence = Min(One, Lerp(s.confidence, pl.confidence, 4, 10) + 100),
              !.lastSeen = t]

NewSurface(id, pl, t) ==
    [id |-> id, normal |-> pl.normal, constant |-> pl.constant, center |-> pl.center,
     extent |-> pl.extent, confidence |-> Max(MinNewConfidence, pl.confidence), lastSeen |-> t]

\* The surface list after a call whose fit returned pl; id is the random id drawn.
AfterFit(list, pl, id, t) ==
    LET found == FindSimilarSurface(list, pl.normal, pl.constant)
        merged == IF found # 0
                  THEN [list EXCEPT ![found] = Fused(list[found], pl, t)]
                  ELSE Append(list, NewSurface(id, pl, t))
    IN DecayAndPrune(merged, t)

\* An abort that stamps every stored surface as seen.
AbortTouches(list, t) == [i \in DOMAIN list |-> [list[i] EXCEPT !.lastSeen = t]]

\* updateFromDepth returning at line 57 or 60: the surface list is left as it is.
AfterAbort(list, t) == list
(***************************************************************************)
(* Trigonometry and THREE.Quaternion in fixed point: angles in             *)
(* milliradians, quaternions <<x, y, z, w>> in thousandths.                *)
(***************************************************************************)
Pi == 3142

\* The angle brought into [-Pi, Pi].
WrapAngle(x) ==
    LET r == x % (2 * Pi)
    IN IF r > Pi THEN r - 2 * Pi ELSE r

\* Math.sin for an angle in [-Pi/2, Pi/2], by its Taylor polynomial.
SinSmall(y) ==
    LET y2 == (y * y) \div 1000
        t3 == (y2 * y) \div 6000
        t5 == (t3 * y2) \div 20000
        t7 == (t5 * y2) \div 42000
    IN y - t3 + t5 - t7

\* Math.sin
Sin(x) ==
    LET w == WrapAngle(x)
    IN IF 2 * w > Pi THEN SinSmall(Pi - w)
       ELSE IF 2 * w < -Pi THEN SinSmall(-Pi - w)
       ELSE SinSmall(w)

\* Math.cos
Cos(x) == Sin(x + Pi \div 2)

\* Math.acos for an argument in [0, 1] (thousandths), in milliradians.
Acos(c) ==
    LET u == One - c
    IN (ISqrt(2000 * u) * (1000 + u \div 12 + (3 * u * u) \div 160000)) \div 1000

\* THREE.MathUtils.degToRad
DegToRad(deg) == RoundDiv(deg * Pi, 180)

QIdentity == <<0, 0, 0, 1000>>

QDot(a, b) == a[1] * b[1] + a[2] * b[2] + a[3] * b[3] + a[4] * b[4]

\* Quaternion.normalize(): a zero quaternion becomes the identity.
QNormalize(q) ==
    LET len == ISqrt(QDot(q, q))
    IN IF len = 0 THEN QIdentity
       ELSE <<RoundDiv(q[1] * One, len), RoundDiv(q[2] * One, len),
              RoundDiv(q[3] * One, len), RoundDiv(q[4] * One, len)>>

\* Quaternion.multiply
QMul(a, b) ==
    <<RoundDiv(a[1] * b[4] + a[4] * b[1] + a[2] * b[3] - a[3] * b[2], One),
      RoundDiv(a[2] * b[4] + a[4] * b[2] + a[3] * b[1] - a[1] * b[3], One),
      RoundDiv(a[3] * b[4] + a[4] * b[3] + a[1] * b[2] - a[2] * b[1], One),
      RoundDiv(a[4] * b[4] - a[1] * b[1] - a[2] * b[2] - a[3] * b[3], One)>>

\* Quaternion.invert(): the conjugate.
QInvert(q) == <<-q[1], -q[2], -q[3], q[4]>>

\* Quaternion.setFromAxisAngle
QFromAxisAngle(axis, angle) ==
    LET s == Sin(angle \div 2)
    IN <<RoundDiv(axis[1] * s, One), RoundDiv(axis[2] * s, One), RoundDiv(axis[3] * s, One),
         Cos(angle \div 2)>>

\* Quaternion.setFromEuler for the order 'YXZ' (angles in milliradians).
QFromEulerYXZ(ex, ey, ez) ==
    LET c1 == Cos(ex \div 2)
        c2 == Cos(ey \div 2)
        c3 == Cos(ez \div 2)
        s1 == Sin(ex \div 2)
        s2 == Sin(ey \div 2)
        s3 == Sin(ez \div 2)
        P3(a, b, c) == RoundDiv(RoundDiv(a * b, One) * c, One)
    IN <<P3(s1, c2, c3) + P3(c1, s2, s3),
         P3(c1, s2, c3) - P3(s1, c2, s3),
         P3(c1, c2, s3) - P3(s1, s2, c3),
         P3(c1, c2, c3) + P3(s1, s2, s3)>>

\* Quaternion.slerp(qb, t), t in thousandths.
QSlerp(qa, qb, t) ==
    IF t = 0 THEN qa
    ELSE IF t >= One THEN qb
    ELSE LET d == QDot(qa, qb)
             b == IF d < 0 THEN <<-qb[1], -qb[2], -qb[3], -qb[4]>> ELSE qb
             cosHalfTheta == RoundDiv(Abs(d), One)
         IN IF cosHalfTheta >= One THEN qa
            ELSE LET halfTheta == Acos(cosHalfTheta)
                     sinHalfTheta == Sin(halfTheta)
                     ratioA == RoundDiv(Sin(((One - t) * halfTheta) \div One) * One, sinHalfTheta)
                     ratioB == RoundDiv(Sin((t * halfTheta) \div One) * One, sinHalfTheta)
                 IN IF sinHalfTheta = 0 THEN qa
                    ELSE <<RoundDiv(qa[1] * ratioA + b[1] * ratioB, One),
                           RoundDiv(qa[2] * ratioA + b[2] * ratioB, One),
                           RoundDiv(qa[3] * ratioA + b[3] * ratioB, One),
                           RoundDiv(qa[4] * ratioA + b[4] * ratioB, One)>>

\* Vector3.applyQuaternion
VApplyQuaternion(v, q) ==
    LET qv == <<q[1], q[2], q[3]>>
        c == VCross(qv, v)
        t == <<RoundDiv(2 * c[1], One), RoundDiv(2 * c[2], One), RoundDiv(2 * c[3], One)>>
        u == VCross(qv, t)
    IN <<v[1] + RoundDiv(q[4] * t[1], One) + RoundDiv(u[1], One),
         v[2] + RoundDiv(q[4] * t[2], One) + RoundDiv(u[2], One),
         v[3] + RoundDiv(q[4] * t[3], One) + RoundDiv(u[3], One)>>

\* Vector3.addScaledVector(v, s) with s = sNum/sDen.
VAddScaled(a, v, sNum, sDen) ==
    <<a[1] + RoundDiv(v[1] * sNum, sDen), a[2] + RoundDiv(v[2] * sNum, sDen),
      a[3] + RoundDiv(v[3] * sNum, sDen)>>


\* THREE.Quaternion.setFromRotationMatrix for the upper 3x3 block m of a matrix, its
\* elements in thousandths and in the order m11, m12, m13, m21, ..., m33.  The
\* block is taken as it is: nothing checks that it is a rotation.
SetFromRotationMatrix(m) ==
    LET trace == m[1] + m[5] + m[9]
        Root(v) == ISqrt(Max(0, v) * One)
        Over(a, r) == IF r = 0 THEN 0 ELSE RoundDiv(a * (One \div 2), r)
    IN IF trace > 0
       THEN LET r == Root(trace + One)
            IN <<Over(m[8] - m[6], r), Over(m[3] - m[7], r), Over(m[4] - m[2], r), RoundDiv(r, 2)>>
       ELSE IF m[1] > m[5] /\ m[1] > m[9]
       THEN LET r == Root(One + m[1] - m[5] - m[9])
            IN <<RoundDiv(r, 2), Over(m[2] + m[4], r), Over(m[3] + m[7], r), Over(m[8] - m[6], r)>>
       ELSE IF m[5] > m[9]
       THEN LET r == Root(One + m[5] - m[1] - m[9])
            IN <<Over(m[2] + m[4], r), RoundDiv(r, 2), Over(m[6] + m[8], r), Over(m[3] - m[7], r)>>
       ELSE LET r == Root(One + m[9] - m[1] - m[5])
            IN <<Over(m[3] + m[7], r), Over(m[6] + m[8], r), RoundDiv(r, 2), Over(m[4] - m[2], r)>>
\* An updateFromDepth call for the sampled cloud c, as long as fewer than maxCalls
\* calls were made.
UpdateFromDepthWithin(maxCalls, c) ==
    /\ fed.calls < maxCalls
    /\ IF NumPoints(Clouds[c]) < MinPoints
       THEN /\ plane' = Null
            /\ existing' = 0
            /\ surfaces' = AfterAbort(surfaces, now)
       ELSE \E pl \in RansacOutcomes[c] :
              /\ plane' = pl
              /\ IF pl = Null
                 THEN /\ existing' = 0
                      /\ surfaces' = AfterAbort(surfaces, now)
                 ELSE /\ existing' = FindSimilarSurface(surfaces, pl.normal, pl.constant)
                      /\ \E id \in SurfaceIds : surfaces' = AfterFit(surfaces, pl, id, now)
    /\ fed' = [calls |-> fed.calls + 1,
               first |-> IF fed.calls = 0 THEN c ELSE fed.first,
               same |-> fed.same /\ plane' # Null /\ (fed.calls = 0 \/ c = fed.first)]

UpdateFromDepth(c) == UpdateFromDepthWithin(MaxCalls, c)

\* The clock of performance.now() moves on between two calls.
MapSteps == {3000}

AdvanceWithin(steps) == \E d \in steps : now + d <= MaxNow /\ now' = now + d

AdvanceMap ==
    /\ AdvanceWithin(MapSteps)
    /\ UNCHANGED <<mapVars, ctlVars, appVars>>

\* The mapper is fed one of clouds.
FeedCloud(clouds) ==
    /\ \E c \in clouds : UpdateFromDepth(c)
    /\ UNCHANGED <<now, ctlVars, appVars>>


\* updateFromDepth from line 57 on, for an array of numPoints points whose fit can
\* return any of outcomes.
FitAndStore(numPoints, outcomes) ==
    IF numPoints < MinPoints
    THEN /\ plane' = Null
         /\ existing' = 0
         /\ surfaces' = AfterAbort(surfaces, now)
    ELSE \E pl \in outcomes :
           /\ plane' = pl
           /\ IF pl = Null
              THEN /\ existing' = 0
                   /\ surfaces' = AfterAbort(surfaces, now)
              ELSE /\ existing' = FindSimilarSurface(surfaces, pl.normal, pl.constant)
                   /\ \E id \in SurfaceIds : surfaces' = AfterFit(surfaces, pl, id, now)

(***************************************************************************)
(* samplePoints: from a depth buffer to the world points.  A DepthResult   *)
(* is [width, height, depth01]; depth01 is the Float32Array as a sequence  *)
(* of depths in thousandths (NaN for a value that is not finite), and it   *)
(* may be shorter than width * height.                                     *)
(***************************************************************************)
sampleStride == 4        \* opts.sampleStride
minDepth01 == 20         \* opts.minDepth01 0.02
maxDepth01 == 980        \* opts.maxDepth01 0.98
minDepthMeters == 30     \* opts.minDepthMeters 0.3 m, in cm
maxDepthMeters == 240    \* opts.maxDepthMeters 2.4 m, in cm
MissingDepth == 500      \* depth.depth01[i] ?? 0.5
CameraFov == 75          \* new THREE.PerspectiveCamera(75, 1, 0.1, 1000): fov in degrees
CameraAspect == 1000     \* ... and aspect 1
NaN == -1000000          \* a Float32Array element that is not finite

\* Math.tan
Tan(x) == RoundDiv(Sin(x) * One, Cos(x))

\* depth.depth01[i] ?? 0.5 (i counts from 0): an index past the end reads undefined.
DepthAt(depth, i) == IF i + 1 <= Len(depth.depth01) THEN depth.depth01[i + 1] ELSE MissingDepth

\* The pixels the two loops visit, in their order.
SampledPixels(depth) ==
    LET stride == Max(1, sampleStride)
        cols == IF depth.width <= 0 THEN 0 ELSE (depth.width - 1) \div stride + 1
        rows == IF depth.height <= 0 THEN 0 ELSE (depth.height - 1) \div stride + 1
    IN [k \in 1..(rows * cols) |->
           [x |-> ((k - 1) % cols) * stride, y |-> ((k - 1) \div cols) * stride]]

\* The loop body for a pixel that is kept: its world point, in cm.
WorldPoint(depth, px, scaleMeters, pose) ==
    LET w == depth.width
        h == depth.height
        d01 == DepthAt(depth, px.y * w + px.x)
        z == Lerp(minDepthMeters, maxDepthMeters, d01, One) * scaleMeters
        tanFov == Tan(DegToRad(CameraFov) \div 2)
        nx == RoundDiv(2 * One * px.x, w - 1) - One
        ny == -(RoundDiv(2 * One * px.y, h - 1) - One)
        vx == RoundDiv(RoundDiv(nx * tanFov, One) * CameraAspect, One)
        vy == RoundDiv(ny * tanFov, One)
        camPoint == <<RoundDiv(vx * z, One), RoundDiv(vy * z, One), -z>>
    IN VAdd(VApplyQuaternion(camPoint, pose.quaternion), pose.position)

\* samplePoints: pixels without a finite depth or outside [minDepth01, maxDepth01]
\* are skipped.
SamplePoints(depth, scaleMeters, pose) ==
    LET kept == SelectSeq(SampledPixels(depth),
                          LAMBDA px : LET d01 == DepthAt(depth, px.y * depth.width + px.x)
                                      IN d01 # NaN /\ d01 >= minDepth01 /\ d01 <= maxDepth01)
    IN [k \in 1..Len(kept) |-> [p |-> WorldPoint(depth, kept[k], scaleMeters, pose), n |-> 1]]

\* The depth buffers the mapper is given, all declared 25 x 25.
GridSide == 25
FullBuffer(d01) == [width |-> GridSide, height |-> GridSide,
                    depth01 |-> [i \in 1..(GridSide * GridSide) |-> d01]]
DepthBuffers ==
    << \* 1: complete, every depth 0.2
       FullBuffer(200),
       \* 2: no entry at all
       [width |-> GridSide, height |-> GridSide, depth01 |-> <<>>],
       \* 3: the first 13 rows only, every depth 0.2
       [width |-> GridSide, height |-> GridSide,
        depth01 |-> [i \in 1..(13 * GridSide) |-> 200]],
       \* 4: complete, no depth finite
       FullBuffer(NaN),
       \* 5: complete, every depth 0.8
       FullBuffer(800) >>

BufferIds == 1..Len(DepthBuffers)

\* The pose handed in with a buffer: at the origin, not rotated.
OriginPose == [position |-> <<0, 0, 0>>, quaternion |-> QIdentity]

BufferPoints == [b \in BufferIds |-> SamplePoints(DepthBuffers[b], 1, OriginPose)]

\* The triples Math.random draws from a sampled array in the model: the first point
\* with the third point of its row and the first point of the third row, in both
\* orders, and a degenerate triple.
BufferTriples(points) ==
    LET cols == (GridSide - 1) \div sampleStride + 1
    IN {<<1, 3, 2 * cols + 1>>, <<1, 2 * cols + 1, 3>>, <<1, 1, 1>>}

BufferOutcomes ==
    [b \in BufferIds |->
        IF NumPoints(BufferPoints[b]) < MinPoints THEN {Null}
        ELSE {RansacPlane(BufferPoints[b], d) :
                 d \in [1..ransacIterations -> BufferTriples(BufferPoints[b])]}]

\* An updateFromDepth call for depth buffer b.
UpdateFromBuffer(b) ==
    /\ fed.calls < MaxCalls
    /\ IF NumPoints(BufferPoints[b]) < MinPoints
       THEN /\ plane' = Null
            /\ existing' = 0
            /\ surfaces' = AfterAbort(surfaces, now)
       ELSE \E pl \in BufferOutcomes[b] :
              /\ plane' = pl
              /\ IF pl = Null
                 THEN /\ existing' = 0
                      /\ surfaces' = AfterAbort(surfaces, now)
                 ELSE /\ existing' = FindSimilarSurface(surfaces, pl.normal, pl.constant)
                      /\ \E id \in SurfaceIds : surfaces' = AfterFit(surfaces, pl, id, now)
    /\ fed' = [calls |-> fed.calls + 1, first |-> fed.first, same |-> FALSE]
    /\ handed' = [depth |-> b]

\* The mapper is given one of buffers.
FeedDepth(buffers) ==
    /\ \E b \in buffers : UpdateFromBuffer(b)
    /\ UNCHANGED <<now, ctlVars, app, depthReqs, returned>>
(***************************************************************************)
(* createTrackingController.  Positions are in millimetres, velocities in  *)
(* mm/s, angular speeds and jitter in mrad/s, dt in milliseconds.          *)
(***************************************************************************)
SLAM_TARGET_FPS == 60
SMOOTH_HALFLIFE_POS == 60    \* 0.06 s
SMOOTH_HALFLIFE_ROT == 50    \* 0.05 s
LOST_RESET_MS == 1500
MaxPredictMs == 120          \* Math.min(0.12, ...)

MaxStarts == 2               \* start() calls in one behaviour
MaxFrames == 2               \* update() calls in one behaviour
MaxResets == 1               \* reset() calls the tracker receives in one behaviour
MaxNativeStarts == 1         \* start() calls in one behaviour of SpecNative
MaxNativeFrames == 2         \* update() calls in one behaviour of SpecNative
MaxReads == 1                \* getter calls in one behaviour of SpecSession

DEFAULT_POSE == [position |-> <<0, 0, 0>>, quaternion |-> QIdentity]

\* The closure variables after createTrackingController returns, at clock time t.
InitCtl(t) ==
    [status |-> "idle",
     pose |-> DEFAULT_POSE,
     planePose |-> Null,
     lastPoints |-> Null,
     alva |-> 0,                      \* 0: null, else the tracker instance held
     canvas |-> FALSE,                \* canvas && ctx
     lastAlvaT |-> 0,
     lostSince |-> -1,                \* -1: null
     lastPoseT |-> 0,
     lastRawPose |-> Null,
     lastRawT |-> 0,
     linearVel |-> <<0, 0, 0>>,
     angularAxis |-> <<0, 1000, 0>>,
     angularSpeed |-> 0,
     hasPose |-> FALSE,
     orientationQ |-> QIdentity,
     velocity |-> <<0, 0, 0>>,
     position |-> <<0, 0, 0>>,
     lastMotionT |-> t,
     listening |-> FALSE,             \* the two sensor listeners are registered on window
     stats |-> [frames |-> 0, tracked |-> 0, lost |-> 0, mode |-> "null",
                jitterPos |-> 0, jitterAng |-> 0, lastPoseAgeMs |-> 0]]

SetStatus(c, next) == [c EXCEPT !.status = next]

\* Math.pow(0.5, x) for x >= 0 given in thousandths, in thousandths.
RECURSIVE Halve(_, _)
Halve(v, k) == IF k = 0 THEN v ELSE Halve(v \div 2, k - 1)

PowHalf(x) ==
    LET k == x \div 1000
        f == x % 1000
        f2 == (f * f) \div 1000
        f3 == (f2 * f) \div 1000
        frac == 1000 - (693 * f) \div 1000 + (240 * f2) \div 1000 - (47 * f3) \div 1000
    IN IF k > 10 THEN 0 ELSE Halve(frac, k)

\* smoothingFactor(dt, halfLife), in thousandths
SmoothingFactor(dt, halfLife) ==
    IF dt <= 0 THEN One
    ELSE One - PowHalf((dt * 1000) \div Max(1, halfLife))

\* updatePoseFromMatrix: m is the tracker's matrix, given by the rotation r that
\* setFromRotationMatrix reads from it and its translation column t.
UpdatePoseFromMatrix(m) ==
    [position |-> <<m.t[1], -m.t[2], -m.t[3]>>,
     quaternion |-> <<-m.r[1], m.r[2], m.r[3], m.r[4]>>]

\* applySmoothing reassigns `pose` (a new object) on the first pose only.
ApplySmoothing(c, raw, dt) ==
    IF ~c.hasPose
    THEN [c EXCEPT !.pose = raw, !.hasPose = TRUE]
    ELSE [c EXCEPT !.pose =
            [position |-> VLerp(c.pose.position, raw.position,
                                SmoothingFactor(dt, SMOOTH_HALFLIFE_POS), One),
             quaternion |-> QSlerp(c.pose.quaternion, raw.quaternion,
                                   SmoothingFactor(dt, SMOOTH_HALFLIFE_ROT))]]

\* The shortest angle between two orientations: 2 * acos(min(1, |a . b|)).
QAngle(a, b) == 2 * Acos(Min(One, RoundDiv(Abs(QDot(a, b)), One)))

UpdateJitter(c, raw, dt) ==
    IF c.lastRawPose = Null \/ dt <= 0 THEN c
    ELSE LET dp == VDistance(raw.position, c.lastRawPose.position)
             dq == QAngle(raw.quaternion, c.lastRawPose.quaternion)
             posJitter == (dp * 1000) \div dt
             rotJitter == (dq * 1000) \div dt
         IN [c EXCEPT !.stats.jitterPos = Lerp(c.stats.jitterPos, posJitter, 1, 10),
                      !.stats.jitterAng = Lerp(c.stats.jitterAng, rotJitter, 1, 10)]

UpdateMotionModel(c, raw, t) ==
    IF c.lastRawPose = Null \/ c.lastRawT <= 0
    THEN [c EXCEPT !.lastRawPose = raw, !.lastRawT = t]
    ELSE LET dt == Max(1, t - c.lastRawT)
             d == VSub(raw.position, c.lastRawPose.position)
             vel == <<RoundDiv(d[1] * 1000, dt), RoundDiv(d[2] * 1000, dt),
                      RoundDiv(d[3] * 1000, dt)>>
             delta == QNormalize(QMul(QInvert(c.lastRawPose.quaternion), raw.quaternion))
             w == Min(One, Abs(delta[4]))
             angle == 2 * Acos(w)
             s == Max(1, ISqrt(One * One - delta[4] * delta[4]))
             axis == <<RoundDiv(delta[1] * One, s), RoundDiv(delta[2] * One, s),
                       RoundDiv(delta[3] * One, s)>>
         IN [c EXCEPT !.linearVel = vel,
                      !.angularAxis = IF angle > 0
                                      THEN IF delta[4] < 0
                                           THEN <<-axis[1], -axis[2], -axis[3]>>
                                           ELSE axis
                                      ELSE c.angularAxis,
                      !.angularSpeed = IF angle > 0 THEN (angle * 1000) \div dt ELSE 0,
                      !.lastRawPose = raw,
                      !.lastRawT = t]

\* applyPrediction moves the pose object in place.
\* A prediction that extrapolates over the whole time since the last raw pose.
ApplyPredictionUncapped(c, t, dt) ==
    IF c.lastRawPose = Null \/ c.lastRawT <= 0 THEN c
    ELSE LET dtp == Max(0, t - c.lastRawT)
             predictedPos == VAddScaled(c.lastRawPose.position, c.linearVel, dtp, 1000)
             predictedQuat ==
                 IF c.angularSpeed > 0 /\ VLengthSq(c.angularAxis) > 100000
                 THEN QNormalize(QMul(c.lastRawPose.quaternion,
                                      QFromAxisAngle(c.angularAxis,
                                                     (c.angularSpeed * dtp) \div 1000)))
                 ELSE c.lastRawPose.quaternion
         IN [c EXCEPT !.pose =
                [position |-> VLerp(c.pose.position, predictedPos,
                                    SmoothingFactor(dt, SMOOTH_HALFLIFE_POS), One),
                 quaternion |-> QSlerp(c.pose.quaternion, predictedQuat,
                                       SmoothingFactor(dt, SMOOTH_HALFLIFE_ROT))]]

ApplyPrediction(c, t, dt) ==
    IF c.lastRawPose = Null \/ c.lastRawT <= 0 THEN c
    ELSE LET dtp == Min(MaxPredictMs, Max(0, t - c.lastRawT))
             predictedPos == VAddScaled(c.lastRawPose.position, c.linearVel, dtp, 1000)
             predictedQuat ==
                 IF c.angularSpeed > 0 /\ VLengthSq(c.angularAxis) > 100000
                 THEN QNormalize(QMul(c.lastRawPose.quaternion,
                                      QFromAxisAngle(c.angularAxis,
                                                     (c.angularSpeed * dtp) \div 1000)))
                 ELSE c.lastRawPose.quaternion
         IN [c EXCEPT !.pose =
                [position |-> VLerp(c.pose.position, predictedPos,
                                    SmoothingFactor(dt, SMOOTH_HALFLIFE_POS), One),
                 quaternion |-> QSlerp(c.pose.quaternion, predictedQuat,
                                       SmoothingFactor(dt, SMOOTH_HALFLIFE_ROT))]]

\* What the tracker hands back to one update(): findCameraPose's result (Null, a
\* value that is no 16-element matrix, or a matrix), findPlane's result and the
\* number of frame points.
NoResult == [pose |-> Null, plane |-> Null, points |-> 0]
Malformed == [len |-> 3]

\* res.length: a matrix [r, t] stands for an array of 16 numbers, any other
\* value is an array [len |-> n] of another length.
ResultLength(m) == IF "len" \in DOMAIN m THEN m.len ELSE 16

\* res && res.length === 16
IsMatrix(m) == m # Null /\ ResultLength(m) = 16

\* The native request as it would be if a failed request returned before lines
\* 605-611: nothing counted, the status left as it was.
RequestPoseSilent(c, e, t, dt, res) ==
    LET c1 == [c EXCEPT !.lastAlvaT = t]
    IN IF IsMatrix(res.pose)
       THEN LET raw == UpdatePoseFromMatrix(res.pose)
                c2 == ApplySmoothing(UpdateMotionModel(UpdateJitter(c1, raw, dt), raw, t), raw, dt)
            IN [c2 EXCEPT !.lastPoseT = t,
                          !.planePose = IF IsMatrix(res.plane)
                                        THEN UpdatePoseFromMatrix(res.plane)
                                        ELSE c.planePose,
                          !.lastPoints = [points |-> res.points],
                          !.stats.tracked = c.stats.tracked + 1,
                          !.lostSince = -1,
                          !.status = "tracking"]
       ELSE ApplyPrediction(c1, t, dt)

\* The native request as it would be if a failed request put the smoothed pose
\* back to DEFAULT_POSE instead of predicting it.
RequestPoseZeroes(c, e, t, dt, res) ==
    LET c1 == [c EXCEPT !.lastAlvaT = t]
    IN IF IsMatrix(res.pose)
       THEN LET raw == UpdatePoseFromMatrix(res.pose)
                c2 == ApplySmoothing(UpdateMotionModel(UpdateJitter(c1, raw, dt), raw, t), raw, dt)
            IN [c2 EXCEPT !.lastPoseT = t,
                          !.planePose = IF IsMatrix(res.plane)
                                        THEN UpdatePoseFromMatrix(res.plane)
                                        ELSE c.planePose,
                          !.lastPoints = [points |-> res.points],
                          !.stats.tracked = c.stats.tracked + 1,
                          !.lostSince = -1,
                          !.status = "tracking"]
       ELSE LET since == IF c1.lostSince = -1 \/ c1.lostSince = 0 THEN t ELSE c1.lostSince
                timeout == since # 0 /\ t - since > LOST_RESET_MS
            IN [c1 EXCEPT !.stats.lost = c.stats.lost + 1,
                          !.lostSince = IF timeout THEN -1 ELSE since,
                          !.status = "lost",
                          !.pose = DEFAULT_POSE]

\* The native request as it would be if findPlane's result were stored before the
\* length test of line 588: a result of another length would still change planePose.
RequestPosePlaneFirst(c, e, t, dt, res) ==
    LET c1 == [c EXCEPT !.lastAlvaT = t,
                        !.planePose = IF res.pose # Null /\ IsMatrix(res.plane)
                                      THEN UpdatePoseFromMatrix(res.plane)
                                      ELSE c.planePose]
    IN IF IsMatrix(res.pose)
       THEN LET raw == UpdatePoseFromMatrix(res.pose)
                c2 == ApplySmoothing(UpdateMotionModel(UpdateJitter(c1, raw, dt), raw, t), raw, dt)
            IN [c2 EXCEPT !.lastPoseT = t,
                          !.lastPoints = [points |-> res.points],
                          !.stats.tracked = c.stats.tracked + 1,
                          !.lostSince = -1,
                          !.status = "tracking"]
       ELSE LET since == IF c1.lostSince = -1 \/ c1.lostSince = 0 THEN t ELSE c1.lostSince
                timeout == since # 0 /\ t - since > LOST_RESET_MS
                c2 == [c1 EXCEPT !.stats.lost = c.stats.lost + 1,
                                 !.lostSince = IF timeout THEN -1 ELSE since,
                                 !.status = "lost"]
            IN ApplyPrediction(c2, t, dt)

\* The native branch of update() once the throttle window has passed.
\* A failed request whose timeout leaves the loss timer running.
RequestPoseKeepsTimer(c, e, t, dt, res) ==
    LET c1 == [c EXCEPT !.lastAlvaT = t]
    IN IF IsMatrix(res.pose)
       THEN LET raw == UpdatePoseFromMatrix(res.pose)
                c2 == ApplySmoothing(UpdateMotionModel(UpdateJitter(c1, raw, dt), raw, t), raw, dt)
            IN [c2 EXCEPT !.lastPoseT = t,
                          !.planePose = IF IsMatrix(res.plane)
                                        THEN UpdatePoseFromMatrix(res.plane)
                                        ELSE c.planePose,
                          !.lastPoints = [points |-> res.points],
                          !.stats.tracked = c.stats.tracked + 1,
                          !.lostSince = -1,
                          !.status = "tracking"]
       ELSE LET since == IF c1.lostSince = -1 \/ c1.lostSince = 0 THEN t ELSE c1.lostSince
                timeout == since # 0 /\ t - since > LOST_RESET_MS
                c2 == [c1 EXCEPT !.stats.lost = c.stats.lost + 1,
                                 !.lostSince = since,
                                 !.status = "lost"]
            IN ApplyPrediction(c2, t, dt)

\* A failed request that counts as two lost frames.
RequestPoseCountsTwice(c, e, t, dt, res) ==
    LET c1 == [c EXCEPT !.lastAlvaT = t]
    IN IF IsMatrix(res.pose)
       THEN LET raw == UpdatePoseFromMatrix(res.pose)
                c2 == ApplySmoothing(UpdateMotionModel(UpdateJitter(c1, raw, dt), raw, t), raw, dt)
            IN [c2 EXCEPT !.lastPoseT = t,
                          !.planePose = IF IsMatrix(res.plane)
                                        THEN UpdatePoseFromMatrix(res.plane)
                                        ELSE c.planePose,
                          !.lastPoints = [points |-> res.points],
                          !.stats.tracked = c.stats.tracked + 1,
                          !.lostSince = -1,
                          !.status = "tracking"]
       ELSE LET since == IF c1.lostSince = -1 \/ c1.lostSince = 0 THEN t ELSE c1.lostSince
                timeout == since # 0 /\ t - since > LOST_RESET_MS
                c2 == [c1 EXCEPT !.stats.lost = c.stats.lost + 2,
                                 !.lostSince = IF timeout THEN -1 ELSE since,
                                 !.status = "lost"]
            IN ApplyPrediction(c2, t, dt)

RequestPose(c, e, t, dt, res) ==
    LET c1 == [c EXCEPT !.lastAlvaT = t]
    IN IF IsMatrix(res.pose)
       THEN LET raw == UpdatePoseFromMatrix(res.pose)
                c2 == ApplySmoothing(UpdateMotionModel(UpdateJitter(c1, raw, dt), raw, t), raw, dt)
            IN [c2 EXCEPT !.lastPoseT = t,
                          !.planePose = IF IsMatrix(res.plane)
                                        THEN UpdatePoseFromMatrix(res.plane)
                                        ELSE c.planePose,
                          !.lastPoints = [points |-> res.points],
                          !.stats.tracked = c.stats.tracked + 1,
                          !.lostSince = -1,
                          !.status = "tracking"]
       ELSE LET since == IF c1.lostSince = -1 \/ c1.lostSince = 0 THEN t ELSE c1.lostSince
                timeout == since # 0 /\ t - since > LOST_RESET_MS
                c2 == [c1 EXCEPT !.stats.lost = c.stats.lost + 1,
                                 !.lostSince = IF timeout THEN -1 ELSE since,
                                 !.status = "lost"]
            IN ApplyPrediction(c2, t, dt)

\* TRUE when this update() makes the tracker's reset() run.
UpdateResets(c, e, t, res) ==
    /\ c.alva # 0 /\ c.canvas /\ e.video /\ e.reset
    /\ (t - c.lastAlvaT) * SLAM_TARGET_FPS >= 1000
    /\ ~IsMatrix(res.pose)
    /\ LET since == IF c.lostSince = -1 \/ c.lostSince = 0 THEN t ELSE c.lostSince
       IN since # 0 /\ t - since > LOST_RESET_MS

\* update() as it would be without the throttle of lines 579-583: every tick with a
\* tracker and a sized video requests a pose.
UpdateUnthrottled(c, e, t, dt, res) ==
    LET c0 == [c EXCEPT !.stats.frames = c.stats.frames + 1,
                        !.stats.lastPoseAgeMs = Max(0, t - c.lastPoseT)]
    IN IF c0.alva # 0 /\ c0.canvas
       THEN IF e.video
            THEN RequestPose(c0, e, t, dt, res)
            ELSE ApplyPrediction(c0, t, dt)
       ELSE LET raw == [position |-> c0.position, quaternion |-> c0.orientationQ]
                c1 == ApplySmoothing(UpdateMotionModel(UpdateJitter(c0, raw, dt), raw, t), raw, dt)
            IN [c1 EXCEPT !.lastPoseT = t]

\* update(dt) at clock time t, the tracker answering res.
UpdateEffect(c, e, t, dt, res) ==
    LET c0 == [c EXCEPT !.stats.frames = c.stats.frames + 1,
                        !.stats.lastPoseAgeMs = Max(0, t - c.lastPoseT)]
    IN IF c0.alva # 0 /\ c0.canvas
       THEN IF e.video
            THEN IF (t - c0.lastAlvaT) * SLAM_TARGET_FPS < 1000
                 THEN ApplyPrediction(c0, t, dt)
                 ELSE RequestPose(c0, e, t, dt, res)
            ELSE ApplyPrediction(c0, t, dt)
       ELSE LET raw == [position |-> c0.position, quaternion |-> c0.orientationQ]
                c1 == ApplySmoothing(UpdateMotionModel(UpdateJitter(c0, raw, dt), raw, t), raw, dt)
            IN [c1 EXCEPT !.lastPoseT = t]

\* TRUE when update() replaces the pose object instead of changing it in place.
UpdateReassignsPose(c, e, t, res) ==
    /\ ~c.hasPose
    /\ \/ ~(c.alva # 0 /\ c.canvas)
       \/ e.video /\ (t - c.lastAlvaT) * SLAM_TARGET_FPS >= 1000 /\ IsMatrix(res.pose)

\* onDeviceOrientation for the event angles (degrees)
OnDeviceOrientationEffect(c, alpha, beta, gamma) ==
    [c EXCEPT !.orientationQ =
        QFromEulerYXZ(DegToRad(beta), DegToRad(alpha), -DegToRad(gamma))]

\* onDeviceMotion at clock time t; a is ev.acceleration (Null, or mm/s^2)
OnDeviceMotionEffect(c, t, a) ==
    LET dt == Max(0, t - c.lastMotionT)
        c1 == [c EXCEPT !.lastMotionT = t]
    IN IF a = Null \/ dt <= 0 THEN c1
       ELSE LET acc == VApplyQuaternion(a, c.orientationQ)
                v1 == VAddScaled(c.velocity, acc, dt, 1000)
                v2 == <<RoundDiv(v1[1] * 98, 100), RoundDiv(v1[2] * 98, 100),
                        RoundDiv(v1[3] * 98, 100)>>
            IN [c1 EXCEPT !.velocity = v2,
                          !.position = VAddScaled(c.position, v2, dt, 1000)]

\* A getter that would count itself as a frame.
GetterCountsFrame(c) == [c EXCEPT !.stats.frames = c.stats.frames + 1]

\* getPose, getPlane, getFramePoints, getStats: the closure state after the call.
\* None of the four has an assignment.
GetterEffect(c) == c

\* A stop() that also starts the counters afresh.
StopClearsStats(c) ==
    SetStatus([c EXCEPT !.listening = FALSE, !.alva = 0,
                        !.stats.frames = 0, !.stats.tracked = 0, !.stats.lost = 0], "idle")

\* A resetWorld() that would also put the status back to 'idle'.
ResetWorldIdles(c) ==
    SetStatus([c EXCEPT !.position = <<0, 0, 0>>,
                        !.velocity = <<0, 0, 0>>,
                        !.pose = [position |-> <<0, 0, 0>>, quaternion |-> c.orientationQ]],
              "idle")

\* A stop() that forgets the tracker handle.
StopKeepsTracker(c) == SetStatus([c EXCEPT !.listening = FALSE], "idle")

\* stop()
\* A stop() that forgets the plane the tracker reported.
StopForgetsPlane(c) ==
    SetStatus([c EXCEPT !.listening = FALSE, !.alva = 0, !.planePose = Null], "idle")

StopEffect(c) == SetStatus([c EXCEPT !.listening = FALSE, !.alva = 0], "idle")

\* resetWorld(): `pose` becomes a new object.
ResetWorldEffect(c) ==
    [c EXCEPT !.position = <<0, 0, 0>>,
              !.velocity = <<0, 0, 0>>,
              !.pose = [position |-> <<0, 0, 0>>, quaternion |-> c.orientationQ]]

\* TRUE when resetWorld() makes the tracker's reset() run.
ResetWorldResets(c, e) == c.alva # 0 /\ e.reset

(***************************************************************************)
(* start(): an async function.  starts[i] is where call i stands:          *)
(* "load" (awaiting loadAlvaModule), "meta" (awaiting the video's          *)
(* metadata or the 1 s timer), "init" (awaiting AlvaAR.Initialize), "perm" *)
(* (awaiting requestPermission), "done" (resolved), "rejected".            *)
(***************************************************************************)
\* The synchronous head of start().
StartHead(c) == SetStatus(c, "initializing")

\* setupCanvas
SetupCanvas(c) == [c EXCEPT !.canvas = TRUE]

\* A start() whose last line is missing: with no pose source it sets no status.
AfterLoadNoVerdict(c, e, mod) ==
    IF mod
    THEN IF ~e.video
         THEN [c |-> c, pc |-> "meta"]
         ELSE [c |-> SetupCanvas(c), pc |-> "init"]
    ELSE IF e.sensors
         THEN IF e.permApi
              THEN [c |-> c, pc |-> "perm"]
              ELSE [c |-> SetStatus([c EXCEPT !.listening = TRUE, !.stats.mode = "sensor"],
                                    "tracking"),
                    pc |-> "done"]
         ELSE [c |-> c, pc |-> "done"]

\* After loadAlvaModule: mod is TRUE for a module, FALSE for null.
AfterLoad(c, e, mod) ==
    IF mod
    THEN IF ~e.video
         THEN [c |-> c, pc |-> "meta"]
         ELSE [c |-> SetupCanvas(c), pc |-> "init"]
    ELSE IF e.sensors
         THEN IF e.permApi
              THEN [c |-> c, pc |-> "perm"]
              ELSE [c |-> SetStatus([c EXCEPT !.listening = TRUE, !.stats.mode = "sensor"],
                                    "tracking"),
                    pc |-> "done"]
         ELSE [c |-> SetStatus(c, "unavailable"), pc |-> "done"]

\* After the wait for the video's size.
AfterMeta(c) == [c |-> SetupCanvas(c), pc |-> "init"]

\* After AlvaAR.Initialize: inst is the instance it resolved with, 0 when it rejected.
AfterInit(c, inst) ==
    IF inst = 0
    THEN [c |-> c, pc |-> "rejected"]
    ELSE [c |-> SetStatus([c EXCEPT !.alva = inst, !.stats.mode = "alva"], "tracking"),
          pc |-> "done"]

\* After requestPermission: "granted", "denied", or "throws" when it rejected.
AfterPermission(c, answer) ==
    IF answer = "granted"
    THEN [c |-> SetStatus([c EXCEPT !.listening = TRUE, !.stats.mode = "sensor"], "tracking"),
          pc |-> "done"]
    ELSE [c |-> SetStatus(c, "unavailable"), pc |-> "done"]

(***************************************************************************)
(* The controller's operations as actions.                                 *)
(***************************************************************************)
vars == <<now, surfaces, plane, existing, fed, ctl, starts, env, app, depthReqs, handed, returned>>

\* What a tracker can answer to one update().
M0 == [r |-> QIdentity, t |-> <<0, 0, 0>>]
M1 == [r |-> QIdentity, t |-> <<50, 0, 0>>]
M2 == [r |-> <<0, 707, 0, 707>>, t |-> <<50, 20, 0>>]

\* A start() call, up to its first await.
StartWithin(maxStarts) ==
    /\ Len(starts) < maxStarts
    /\ ctl' = StartHead(ctl)
    /\ starts' = Append(starts, "load")
    /\ UNCHANGED <<env, now>>

StartCall == StartWithin(MaxStarts)

Start == StartCall /\ UNCHANGED <<mapVars, appVars>>

\* The continuation of start() call i with the result r = [c, pc] of its next stretch.
Continue(i, r) ==
    /\ ctl' = r.c
    /\ starts' = [starts EXCEPT ![i] = r.pc]
    /\ UNCHANGED <<env, now, mapVars, appVars>>

LoadResolved ==
    \E i \in 1..Len(starts) :
      /\ starts[i] = "load"
      /\ Continue(i, AfterLoad(ctl, env, env.module))

MetaResolved ==
    \E i \in 1..Len(starts) :
      /\ starts[i] = "meta"
      /\ Continue(i, AfterMeta(ctl))

InitResolved ==
    \E i \in 1..Len(starts) :
      /\ starts[i] = "init"
      /\ Continue(i, AfterInit(ctl, i))

InitRejected ==
    \E i \in 1..Len(starts) :
      /\ starts[i] = "init"
      /\ Continue(i, AfterInit(ctl, 0))

PermissionResolved ==
    \E i \in 1..Len(starts) :
      /\ starts[i] = "perm"
      /\ \E answer \in {"granted", "denied", "throws"} : Continue(i, AfterPermission(ctl, answer))

\* A stop() call.
StopCall ==
    /\ ctl' = StopEffect(ctl)
    /\ UNCHANGED <<starts, env, now>>

Stop == StopCall /\ UNCHANGED <<mapVars, appVars>>

\* update(dt) called d ms (one of steps) after the handler before it, for a dt of
\* dts, the tracker answering one of results.
UpdateWithin(maxFrames, dts, results, steps) ==
    /\ ctl.stats.frames < maxFrames
    /\ \E d \in steps, dt \in dts, res \in results :
         /\ UpdateResets(ctl, env, now + d, res) => env.resets < MaxResets
         /\ now' = now + d
         /\ ctl' = UpdateEffect(ctl, env, now + d, dt, res)
         /\ env' = IF UpdateResets(ctl, env, now + d, res)
                   THEN [env EXCEPT !.resets = env.resets + 1] ELSE env
    /\ UNCHANGED starts

UpdateCall(dts, results, steps) == UpdateWithin(MaxFrames, dts, results, steps)

Update(dts, results, steps) ==
    UpdateCall(dts, results, steps) /\ UNCHANGED <<mapVars, appVars>>

\* A resetWorld() call.
ResetWorldCall ==
    /\ ResetWorldResets(ctl, env) => env.resets < MaxResets
    /\ ctl' = ResetWorldEffect(ctl)
    /\ env' = IF ResetWorldResets(ctl, env) THEN [env EXCEPT !.resets = env.resets + 1] ELSE env
    /\ UNCHANGED <<starts, now>>

ResetWorld == ResetWorldCall /\ UNCHANGED <<mapVars, appVars>>

\* The platform delivers a deviceorientation event to the registered listener.
DeviceOrientation(alphas) ==
    /\ ctl.listening
    /\ \E alpha \in alphas : ctl' = OnDeviceOrientationEffect(ctl, alpha, 0, 0)
    /\ UNCHANGED <<starts, env, now, mapVars, appVars>>

\* The platform delivers a devicemotion event to the registered listener.
DeviceMotion(accs) ==
    /\ ctl.listening
    /\ \E a \in accs : ctl' = OnDeviceMotionEffect(ctl, now, a)
    /\ UNCHANGED <<starts, env, now, mapVars, appVars>>

\* The video gains or loses its frame size (videoWidth, videoHeight), which only
\* the native path reads.
VideoChange ==
    /\ env.module
    /\ env' = [env EXCEPT !.video = ~env.video]
    /\ UNCHANGED <<ctl, starts, now, mapVars, appVars>>


\* A call of the getter op, which returns value; reads counts the getter calls.
GetterCall(op, value) ==
    /\ IF returned = Null THEN MaxReads > 0 ELSE returned.reads < MaxReads
    /\ returned' = [op |-> op, value |-> value,
                    reads |-> IF returned = Null THEN 1 ELSE returned.reads + 1]
    /\ ctl' = GetterEffect(ctl)
    /\ UNCHANGED <<starts, env, now>>

GetPose ==
    /\ GetterCall("getPose", ctl.pose)
    /\ UNCHANGED <<mapVars, app, depthReqs, handed>>

GetPlane ==
    /\ GetterCall("getPlane", ctl.planePose)
    /\ UNCHANGED <<mapVars, app, depthReqs, handed>>

GetFramePoints ==
    /\ GetterCall("getFramePoints", ctl.lastPoints)
    /\ UNCHANGED <<mapVars, app, depthReqs, handed>>

\* getStats returns a copy of stats.
GetStats ==
    /\ GetterCall("getStats", ctl.stats)
    /\ UNCHANGED <<mapVars, app, depthReqs, handed>>
(***************************************************************************)
(* startApp: the frame loop, the Start and Stop buttons, the depth         *)
(* checkbox and the depth estimates in flight.  frame()'s rendering,       *)
(* physics and game modes read the state modelled here and leave it alone. *)
(***************************************************************************)
MaxFrameDt == 50             \* Math.min((t - lastT) / 1000, 0.05)
DepthIntervalMs == 1500      \* t - lastDepthT > 1500

\* The closure variables after startApp's set-up, at clock time t.
InitApp(t) ==
    [activeStream |-> FALSE, runDepth |-> FALSE, mode |-> "runner", lastT |-> t,
     lastDepthT |-> t]

\* `const pose = tracking.getPose()` is the controller's pose object itself: a
\* request whose held is Null still shares it.  When the controller makes `pose` a
\* new object, the requests in flight keep the old one with the value old.
Detach(reqs, old) ==
    [i \in DOMAIN reqs |-> IF reqs[i].held = Null THEN [reqs[i] EXCEPT !.held = old]
                                                  ELSE reqs[i]]

\* What the object captured by request r holds now.
CapturedPose(r, c) == IF r.held = Null THEN c.pose ELSE r.held

Remove(reqs, i) == [j \in 1..(Len(reqs) - 1) |-> IF j < i THEN reqs[j] ELSE reqs[j + 1]]

\* frame(t), d ms (one of steps) after the handler before it, the tracker
\* answering one of results.
Frame(steps, results) ==
    \E d \in steps, res \in results :
      LET t == now + d
          dt == Min(t - app.lastT, MaxFrameDt)
          request == /\ app.mode # "angry"
                     /\ app.runDepth
                     /\ app.activeStream
                     /\ t - app.lastDepthT > DepthIntervalMs
                     /\ env.video
          kept == IF UpdateReassignsPose(ctl, env, t, res)
                  THEN Detach(depthReqs, ctl.pose) ELSE depthReqs
      IN /\ UpdateCall({dt}, {res}, {d})
         /\ app' = [app EXCEPT !.lastT = t,
                               !.lastDepthT = IF request THEN t ELSE @]
         /\ depthReqs' = IF request
                         THEN Append(kept, [reqPose |-> ctl'.pose, held |-> Null,
                                            stopped |-> FALSE])
                         ELSE kept
         /\ UNCHANGED <<handed, returned, mapVars>>

\* The Start button's handler once startRearCamera resolved with a stream.
BtnStart ==
    /\ StartCall
    /\ app' = [app EXCEPT !.activeStream = TRUE]
    /\ UNCHANGED <<depthReqs, handed, returned, mapVars>>

\* The Stop button's handler.  stopped marks the estimates requested before it.
BtnStop ==
    /\ StopCall
    /\ app' = [app EXCEPT !.activeStream = FALSE]
    /\ depthReqs' = [i \in DOMAIN depthReqs |-> [depthReqs[i] EXCEPT !.stopped = TRUE]]
    /\ UNCHANGED <<handed, returned, mapVars>>

\* The Reset World button's handler.
BtnResetWorld ==
    /\ ResetWorldCall
    /\ depthReqs' = Detach(depthReqs, ctl.pose)
    /\ UNCHANGED <<app, handed, returned, mapVars>>

\* The depth checkbox's change handler.
ChkRunDepth ==
    /\ app' = [app EXCEPT !.runDepth = ~@]
    /\ UNCHANGED <<now, ctlVars, depthReqs, handed, returned, mapVars>>

\* The .then callback of a depth estimate in flight; samplePoints yields one of
\* clouds.
DepthResolved(clouds) ==
    \E i \in 1..Len(depthReqs) :
      /\ \E c \in clouds : UpdateFromDepth(c)
      /\ handed' = [pose |-> CapturedPose(depthReqs[i], ctl),
                    reqPose |-> depthReqs[i].reqPose,
                    afterStop |-> depthReqs[i].stopped]
      /\ depthReqs' = Remove(depthReqs, i)
      /\ UNCHANGED <<now, ctlVars, app, returned>>

\* The .catch callback of a depth estimate in flight.
DepthRejected ==
    \E i \in 1..Len(depthReqs) :
      /\ depthReqs' = Remove(depthReqs, i)
      /\ UNCHANGED <<now, ctlVars, app, handed, returned, mapVars>>

(***************************************************************************)
(* SpecMap: the plane mapper alone, fed sampled clouds at any clock times. *)
(***************************************************************************)
InitMap ==
    /\ now = 0
    /\ surfaces = <<>>
    /\ plane = Null
    /\ existing = 0
    /\ fed = [calls |-> 0, first |-> 0, same |-> TRUE]
    /\ ctl = InitCtl(0)
    /\ starts = <<>>
    /\ env = [module |-> FALSE, sensors |-> FALSE, permApi |-> FALSE, reset |-> FALSE,
              video |-> FALSE, resets |-> 0]
    /\ app = InitApp(0)
    /\ depthReqs = <<>>
    /\ handed = Null
    /\ returned = Null

NextMap ==
    \/ FeedCloud(CloudIds)
    \/ AdvanceMap

SpecMap == InitMap /\ [][NextMap]_vars
(***************************************************************************)
(* Spec: the tracking controller, its operations called in any order, on   *)
(* each kind of platform.                                                  *)
(***************************************************************************)
Platform(module, sensors, permApi, reset) ==
    [module |-> module, sensors |-> sensors, permApi |-> permApi, reset |-> reset,
     video |-> FALSE, resets |-> 0]

\* With the module present the sensors are never consulted; without it the
\* tracker's capabilities are not.
Platforms ==
    { Platform(TRUE, FALSE, FALSE, TRUE),
      Platform(FALSE, TRUE, TRUE, FALSE),
      Platform(FALSE, TRUE, FALSE, FALSE),
      Platform(FALSE, FALSE, FALSE, FALSE) }

\* The tracker's answers, the dt arguments of update() and the clock steps (ms).
Results == {NoResult, [pose |-> M1, plane |-> M1, points |-> 2]}
DtSet == {16}
CtlSteps == {0, 20}

\* The sensor events: alpha (degrees) and acceleration (mm/s^2).
Alphas == {90}
Accelerations == {<<1000, 0, 0>>}

Init ==
    /\ now = 100
    /\ surfaces = <<>>
    /\ plane = Null
    /\ existing = 0
    /\ fed = [calls |-> 0, first |-> 0, same |-> TRUE]
    /\ ctl = InitCtl(100)
    /\ starts = <<>>
    /\ env \in Platforms
    /\ app = InitApp(100)
    /\ depthReqs = <<>>
    /\ handed = Null
    /\ returned = Null

Next ==
    \/ Start
    \/ LoadResolved
    \/ MetaResolved
    \/ InitResolved
    \/ InitRejected
    \/ PermissionResolved
    \/ Stop
    \/ Update(DtSet, Results, CtlSteps)
    \/ ResetWorld
    \/ DeviceOrientation(Alphas)
    \/ DeviceMotion(Accelerations)
    \/ VideoChange

Spec == Init /\ [][Next]_vars

(***************************************************************************)
(* SpecApp: the application on a platform with the tracker module: its     *)
(* handlers in any order, the awaited results arriving at any time.        *)
(***************************************************************************)
AppSteps == {20, 1600}
AppClouds == {1}

InitApp0 ==
    /\ now = 100
    /\ surfaces = <<>>
    /\ plane = Null
    /\ existing = 0
    /\ fed = [calls |-> 0, first |-> 0, same |-> TRUE]
    /\ ctl = InitCtl(100)
    /\ starts = <<>>
    /\ env = Platform(TRUE, FALSE, FALSE, TRUE)
    /\ app = InitApp(100)
    /\ depthReqs = <<>>
    /\ handed = Null
    /\ returned = Null

NextApp ==
    \/ Frame(AppSteps, Results)
    \/ BtnStart
    \/ BtnStop
    \/ BtnResetWorld
    \/ ChkRunDepth
    \/ DepthResolved(AppClouds)
    \/ DepthRejected
    \/ LoadResolved
    \/ MetaResolved
    \/ InitResolved
    \/ InitRejected
    \/ VideoChange

SpecApp == InitApp0 /\ [][NextApp]_vars

(***************************************************************************)
(* SpecNative: the controller on a platform with the tracker module, the   *)
(* ticks arriving inside and outside the throttle window, the tracker      *)
(* answering with poses, nothing, or an array of another length.           *)
(***************************************************************************)
NativeSteps == {10, 20}
NativeDts == {16}
NativeResults ==
    { NoResult,
      [pose |-> Malformed, plane |-> M1, points |-> 2],
      [pose |-> M1, plane |-> M1, points |-> 2],
      [pose |-> M2, plane |-> Null, points |-> 0] }

InitNative ==
    /\ now = 100
    /\ surfaces = <<>>
    /\ plane = Null
    /\ existing = 0
    /\ fed = [calls |-> 0, first |-> 0, same |-> TRUE]
    /\ ctl = InitCtl(100)
    /\ starts = <<>>
    /\ env = Platform(TRUE, FALSE, FALSE, TRUE)
    /\ app = InitApp(100)
    /\ depthReqs = <<>>
    /\ handed = Null
    /\ returned = Null

NativeStart == StartWithin(MaxNativeStarts) /\ UNCHANGED <<mapVars, appVars>>

Tick == UpdateWithin(MaxNativeFrames, NativeDts, NativeResults, NativeSteps)
            /\ UNCHANGED <<mapVars, appVars>>

NextNative ==
    \/ NativeStart
    \/ LoadResolved
    \/ MetaResolved
    \/ InitResolved
    \/ Stop
    \/ Tick
    \/ ResetWorld
    \/ VideoChange

SpecNative == InitNative /\ [][NextNative]_vars

(***************************************************************************)
(* SpecLoss: the controller on a platform with the tracker module, the     *)
(* ticks 20 ms or 1600 ms apart, start() and stop() called at any time.    *)
(***************************************************************************)
LossSteps == {20, 1600}

LossTick == UpdateWithin(MaxFrames, DtSet, Results, LossSteps)
                /\ UNCHANGED <<mapVars, appVars>>

NextLoss ==
    \/ Start
    \/ LoadResolved
    \/ MetaResolved
    \/ InitResolved
    \/ Stop
    \/ LossTick
    \/ ResetWorld
    \/ VideoChange

SpecLoss == InitNative /\ [][NextLoss]_vars

(***************************************************************************)
(* SpecDepth: the plane mapper given depth buffers, complete or not.       *)
(***************************************************************************)
NextDepth ==
    \/ FeedDepth(BufferIds)
    \/ AdvanceMap

SpecDepth == InitMap /\ [][NextDepth]_vars

(***************************************************************************)
(* SpecDecay: the plane mapper fed two parallel planes 30 cm apart, the    *)
(* calls 5 s apart or at the same clock time, often enough for a surface   *)
(* that is not seen again to decay down to the pruning floor.              *)
(***************************************************************************)
DecayClouds == {1, 3}
DecaySteps == {5000}

FeedDecay ==
    /\ \E c \in DecayClouds : UpdateFromDepthWithin(MaxDecayCalls, c)
    /\ UNCHANGED <<now, ctlVars, appVars>>

AdvanceDecay ==
    /\ AdvanceWithin(DecaySteps)
    /\ UNCHANGED <<mapVars, ctlVars, appVars>>

NextDecay ==
    \/ FeedDecay
    \/ AdvanceDecay

SpecDecay == InitMap /\ [][NextDecay]_vars

(***************************************************************************)
(* SpecSession: one session of the controller on a platform whose tracker  *)
(* has a reset, one whose tracker has none, one with the sensors only and  *)
(* one with nothing: every operation of the returned object, called in    *)
(* any order.                                                              *)
(***************************************************************************)
SessionPlatforms ==
    { Platform(TRUE, FALSE, FALSE, TRUE),
      Platform(TRUE, FALSE, FALSE, FALSE),
      Platform(FALSE, TRUE, FALSE, FALSE),
      Platform(FALSE, FALSE, FALSE, FALSE) }

InitSession ==
    /\ now = 100
    /\ surfaces = <<>>
    /\ plane = Null
    /\ existing = 0
    /\ fed = [calls |-> 0, first |-> 0, same |-> TRUE]
    /\ ctl = InitCtl(100)
    /\ starts = <<>>
    /\ env \in SessionPlatforms
    /\ app = InitApp(100)
    /\ depthReqs = <<>>
    /\ handed = Null
    /\ returned = Null

SessionStart == StartWithin(MaxNativeStarts) /\ UNCHANGED <<mapVars, appVars>>

\* The ticks of a session arrive 20 ms apart.
SessionSteps == {20}

SessionTick == UpdateWithin(MaxNativeFrames, DtSet, Results, SessionSteps)
                   /\ UNCHANGED <<mapVars, appVars>>

NextSession ==
    \/ SessionStart
    \/ LoadResolved
    \/ MetaResolved
    \/ InitResolved
    \/ Stop
    \/ SessionTick
    \/ ResetWorld
    \/ DeviceMotion(Accelerations)
    \/ VideoChange
    \/ GetPose
    \/ GetPlane
    \/ GetFramePoints
    \/ GetStats

SpecSession == InitSession /\ [][NextSession]_vars

(***************************************************************************)
(* SpecContinuity: the tracker delivers the raw positions (0,0,0),         *)
(* (0.05,0,0) and (0.10,0,0) m, identity orientation, 0.1 s apart, and no  *)
(* pose for any other frame; the ticks come 10 or 20 ms apart, each with   *)
(* the time since the tick before as its dt.                               *)
(***************************************************************************)
RawStart == 120      \* performance.now() of the tick that gets the first raw pose
RawGap == 100        \* 0.1 s between two raw poses
M3 == [r |-> QIdentity, t |-> <<100, 0, 0>>]

\* What findCameraPose returns for the frame of clock time t.
RawAt(t) ==
    IF t = RawStart THEN [pose |-> M0, plane |-> Null, points |-> 0]
    ELSE IF t = RawStart + RawGap THEN [pose |-> M1, plane |-> Null, points |-> 0]
    ELSE IF t = RawStart + 2 * RawGap THEN [pose |-> M3, plane |-> Null, points |-> 0]
    ELSE NoResult

ContinuitySteps == {10, 20}

InitContinuity ==
    /\ now = 100
    /\ surfaces = <<>>
    /\ plane = Null
    /\ existing = 0
    /\ fed = [calls |-> 0, first |-> 0, same |-> TRUE]
    /\ ctl = InitCtl(100)
    /\ starts = <<>>
    /\ env = [Platform(TRUE, FALSE, FALSE, TRUE) EXCEPT !.video = TRUE]
    /\ app = InitApp(100)
    /\ depthReqs = <<>>
    /\ handed = Null
    /\ returned = Null

ContinuityStart == StartWithin(MaxNativeStarts) /\ UNCHANGED <<mapVars, appVars>>

\* update(dt) until the third raw pose has been due.
ContinuityTick ==
    /\ \E d \in ContinuitySteps :
         /\ now + d <= RawStart + 2 * RawGap
         /\ now' = now + d
         /\ ctl' = UpdateEffect(ctl, env, now + d, d, RawAt(now + d))
    /\ UNCHANGED <<starts, env, mapVars, appVars>>

NextContinuity ==
    \/ ContinuityStart
    \/ LoadResolved
    \/ InitResolved
    \/ ContinuityTick

SpecContinuity == InitContinuity /\ [][NextContinuity]_vars

(***************************************************************************)
(* SpecFit: the plane mapper fed 200 points on the plane z = 0 and 50      *)
(* outliers up to 1 m off it.                                              *)
(***************************************************************************)
ScatterCloud ==
    <<Pt(0, 0, 0, 50), Pt(40, 0, 0, 50), Pt(0, 40, 0, 50), Pt(40, 40, 0, 50),
      Pt(10, 10, 100, 10), Pt(30, 10, -100, 10), Pt(20, 30, 50, 10), Pt(5, 35, -50, 10),
      Pt(35, 35, 80, 10)>>

\* The triples Math.random draws from the cloud in the model: three points of the
\* plane in both orders, one point three times, two points of the plane with an
\* outlier, and three outliers.
ScatterTriples == {<<1, 2, 3>>, <<1, 3, 2>>, <<1, 1, 1>>, <<1, 2, 5>>, <<5, 6, 7>>}

ScatterOutcomes ==
    {RansacPlane(ScatterCloud, d) : d \in [1..ransacIterations -> ScatterTriples]}

FeedScatter ==
    /\ fed.calls < MaxCalls
    /\ FitAndStore(NumPoints(ScatterCloud), ScatterOutcomes)
    /\ fed' = [calls |-> fed.calls + 1, first |-> fed.first, same |-> FALSE]
    /\ UNCHANGED <<now, ctlVars, appVars>>

NextFit ==
    \/ FeedScatter
    \/ AdvanceMap

SpecFit == InitMap /\ [][NextFit]_vars

(***************************************************************************)
(* SpecPose: the controller with a tracker whose 16-element results are    *)
(* decomposed as updatePoseFromMatrix does it, whatever their upper 3x3    *)
(* block holds.                                                            *)
(***************************************************************************)
RotIdentity == <<1000, 0, 0, 0, 1000, 0, 0, 0, 1000>>
RotYaw == <<0, 0, 1000, 0, 1000, 0, -1000, 0, 0>>
RotPitch == <<1000, 0, 0, 0, 0, -1000, 0, 1000, 0>>
RotZero == <<0, 0, 0, 0, 0, 0, 0, 0, 0>>
RotDouble == <<2000, 0, 0, 0, 2000, 0, 0, 0, 2000>>

Rotations == {RotIdentity, RotYaw, RotPitch}
PoseMatrices ==
    {[rot |-> m, t |-> p] : m \in Rotations \cup {RotZero, RotDouble}, p \in {<<0, 0, 0>>, <<50, 20, 0>>}}

\* The Matrix4 and the translation updatePoseFromMatrix reads from the array.
FromArray(mat) == [r |-> SetFromRotationMatrix(mat.rot), t |-> mat.t]

PoseResults ==
    {NoResult} \cup {[pose |-> FromArray(mat), plane |-> Null, points |-> 0] : mat \in PoseMatrices}
PoseSteps == {20}

PoseStart == StartWithin(MaxNativeStarts) /\ UNCHANGED <<mapVars, appVars>>

PoseTick == UpdateWithin(MaxNativeFrames, NativeDts, PoseResults, PoseSteps)
                /\ UNCHANGED <<mapVars, appVars>>

NextPose ==
    \/ PoseStart
    \/ LoadResolved
    \/ MetaResolved
    \/ InitResolved
    \/ PoseTick
    \/ VideoChange

SpecPose == InitNative /\ [][NextPose]_vars

(***************************************************************************)
(* SpecFuse: the plane mapper fed two clouds of the plane z = 0, one with  *)
(* 200 of 250 points on the plane, one with 45 of 150.                     *)
(***************************************************************************)
SparseCloud ==
    <<Pt(0, 0, 0, 15), Pt(40, 0, 0, 15), Pt(0, 40, 0, 15),
      Pt(10, 10, 100, 21), Pt(30, 10, -100, 21), Pt(20, 30, 50, 21), Pt(5, 35, -50, 21),
      Pt(35, 35, 80, 21)>>

FuseClouds == {ScatterCloud, SparseCloud}

\* The triples drawn from either cloud: three points of the plane, or one point
\* three times.
FuseTriples == {<<1, 2, 3>>, <<1, 1, 1>>}

FuseOutcomes(points) ==
    {RansacPlane(points, d) : d \in [1..ransacIterations -> FuseTriples]}

FeedFuse ==
    /\ fed.calls < MaxCalls
    /\ \E points \in FuseClouds : FitAndStore(NumPoints(points), FuseOutcomes(points))
    /\ fed' = [calls |-> fed.calls + 1, first |-> fed.first, same |-> FALSE]
    /\ UNCHANGED <<now, ctlVars, appVars>>

FuseSteps == {1000, 3000}

AdvanceFuse ==
    /\ AdvanceWithin(FuseSteps)
    /\ UNCHANGED <<mapVars, ctlVars, appVars>>

NextFuse ==
    \/ FeedFuse
    \/ AdvanceFuse

SpecFuse == InitMap /\ [][NextFuse]_vars

(***************************************************************************)
(* SpecOutage: the controller in native mode with a sized video, every     *)
(* pose request failing and the ticks going on as long as the clock of the *)
(* model runs.                                                             *)
(***************************************************************************)
OutageResults == {NoResult, [pose |-> Malformed, plane |-> Null, points |-> 0]}
OutageSteps == {400, 700}
\* A tick this soon after a request falls inside the throttle window.
OutageQuickSteps == {10}

\* The platform also records when the tracker's reset() last ran.
InitOutage ==
    /\ now = 100
    /\ surfaces = <<>>
    /\ plane = Null
    /\ existing = 0
    /\ fed = [calls |-> 0, first |-> 0, same |-> TRUE]
    /\ ctl = InitCtl(100)
    /\ starts = <<>>
    /\ env = [resetAt |-> 0] @@ [Platform(TRUE, FALSE, FALSE, TRUE) EXCEPT !.video = TRUE]
    /\ app = InitApp(100)
    /\ depthReqs = <<>>
    /\ handed = Null
    /\ returned = Null

\* start() is called once: the claim is about one session.
OutageStart == StartWithin(1) /\ UNCHANGED <<mapVars, appVars>>

\* The clock at a tick d ms after the handler before it; a quick tick follows a tick
\* that made a request.
TickClock ==
    \E d \in OutageSteps \cup OutageQuickSteps :
      /\ d \in OutageQuickSteps => now = ctl.lastAlvaT
      /\ now + d <= MaxNow
      /\ now' = now + d

\* update(dt), dt the time since the tick before, every request answered with no
\* pose.
OutageTick ==
    /\ TickClock
    /\ \E res \in OutageResults :
         /\ ctl' = UpdateEffect(ctl, env, now', now' - now, res)
         /\ env' = IF UpdateResets(ctl, env, now', res)
                   THEN [env EXCEPT !.resets = env.resets + 1, !.resetAt = now']
                   ELSE env
    /\ UNCHANGED <<starts, mapVars, appVars>>

NextOutage ==
    \/ OutageStart
    \/ LoadResolved
    \/ InitResolved
    \/ OutageTick

\* The ticks continue: requestAnimationFrame keeps calling update(), and the clock
\* moves with a tick only, so fairness of the clock step is fairness of the tick.
SpecOutage == InitOutage /\ [][NextOutage]_vars /\ WF_now(TickClock)

(***************************************************************************)
(* SpecCoast: the raw poses of SpecContinuity, the ticks 20, 100 or 300 ms *)
(* apart and going on after the last raw pose.                             *)
(***************************************************************************)
CoastSteps == {20, 100, 300}

CoastTick ==
    /\ \E d \in CoastSteps :
         /\ now + d <= RawStart + 4 * RawGap
         /\ now' = now + d
         /\ ctl' = UpdateEffect(ctl, env, now + d, d, RawAt(now + d))
    /\ UNCHANGED <<starts, env, mapVars, appVars>>

NextCoast ==
    \/ ContinuityStart
    \/ LoadResolved
    \/ InitResolved
    \/ CoastTick

SpecCoast == InitContinuity /\ [][NextCoast]_vars

(***************************************************************************)
(* SpecDrift: the plane mapper fed three parallel planes, z = 0.10 m,      *)
(* z = 0.30 m and z = 0.36 m.                                              *)
(***************************************************************************)
DriftClouds ==
    {<<Pt(0, 0, 10, 15), Pt(40, 0, 10, 15), Pt(0, 40, 10, 15)>>,
     <<Pt(0, 0, 30, 15), Pt(40, 0, 30, 15), Pt(0, 40, 30, 15)>>,
     <<Pt(0, 0, 36, 15), Pt(40, 0, 36, 15), Pt(0, 40, 36, 15)>>}

\* Every iteration draws the three distinct points, in this order or not at all.
DriftTriples == {<<1, 2, 3>>, <<1, 1, 1>>}

DriftOutcomes(points) ==
    {RansacPlane(points, d) : d \in [1..ransacIterations -> DriftTriples]}

FeedDrift ==
    /\ fed.calls < MaxCalls
    /\ \E points \in DriftClouds : FitAndStore(NumPoints(points), DriftOutcomes(points))
    /\ fed' = [calls |-> fed.calls + 1, first |-> fed.first, same |-> FALSE]
    /\ UNCHANGED <<now, ctlVars, appVars>>

NextDrift ==
    \/ FeedDrift
    \/ AdvanceMap

SpecDrift == InitMap /\ [][NextDrift]_vars

(***************************************************************************)
(* SpecPlane: the controller in native mode, the tracker reporting with a  *)
(* pose a plane, another plane, no plane or an array of another length.    *)
(***************************************************************************)
PlaneResults ==
    { NoResult,
      [pose |-> M1, plane |-> M1, points |-> 2],
      [pose |-> M2, plane |-> M2, points |-> 2],
      [pose |-> M1, plane |-> Malformed, points |-> 2],
      [pose |-> M2, plane |-> Null, points |-> 0] }

PlaneTick == UpdateWithin(MaxNativeFrames, NativeDts, PlaneResults, NativeSteps)
                 /\ UNCHANGED <<mapVars, appVars>>

NextPlane ==
    \/ NativeStart
    \/ LoadResolved
    \/ MetaResolved
    \/ InitResolved
    \/ Stop
    \/ PlaneTick
    \/ ResetWorld
    \/ VideoChange

SpecPlane == InitNative /\ [][NextPlane]_vars
(***************************************************************************)
(* Claims about the plane mapper, checked under SpecMap.                   *)
(***************************************************************************)
\* The fusion test of the specification, stated on a stored surface and a candidate.
Similar(s, pl) ==
    /\ VDot(s.normal, pl.normal) >= 920000
    /\ Abs(s.constant - pl.constant) < 25000

Geometry(s) == <<s.normal, s.constant, s.center, s.extent>>

\* A step that is an updateFromDepth call whose fit succeeded.
FitStep == fed'.calls = fed.calls + 1 /\ plane' # Null

\* C1: after the same planar cloud was fed N >= 2 times, every fit succeeding,
\* getSurfaces() holds exactly one surface.
C1_SameCloudOneSurface == (fed.calls >= 2 /\ fed.same) => Len(surfaces) = 1

\* C2: a successful fit is fused into a stored surface exactly when some stored
\* surface passes the fusion test (normal dot >= 0.92 and constant difference < 0.25);
\* otherwise a new surface with the candidate's geometry is inserted and no stored
\* surface's geometry is blended.
C2_FusedIffSimilar ==
    [][FitStep =>
        LET match == \E i \in 1..Len(surfaces) : Similar(surfaces[i], plane')
            old == {Geometry(surfaces[i]) : i \in 1..Len(surfaces)}
            new == {Geometry(surfaces'[j]) : j \in 1..Len(surfaces')}
        IN /\ match <=> existing' # 0
           /\ match => /\ Similar(surfaces[existing'], plane')
                       /\ Len(surfaces') <= Len(surfaces)
           /\ ~match => /\ Geometry(plane') \in new
                        /\ Geometry(plane') \notin old
                        /\ new \subseteq old \cup {Geometry(plane')}]_vars

\* C2 witness: both cases have happened: a candidate was fused into a stored
\* surface (whose normal is now a blend, no normal of any cloud), and the latest
\* call inserted a clearly distinct one next to it.
C2_Witness ==
    /\ fed.calls = 3
    /\ plane # Null
    /\ existing = 0
    /\ Len(surfaces) = 2
    /\ \E i \in 1..2 : surfaces[i].normal[2] \notin {0, 280, -280, 1000, -1000}

(***************************************************************************)
(* Claims about the tracking controller, checked under Spec.               *)
(***************************************************************************)
\* A step in which start() is called.
StartStep == Len(starts') > Len(starts)

\* A step in which update() runs.
UpdateStep == ctl'.stats.frames > ctl.stats.frames

\* A step in which a start() call resolves or rejects.
SettleStep ==
    \E i \in 1..Len(starts) : /\ starts[i] \notin {"done", "rejected"}
                              /\ starts'[i] \in {"done", "rejected"}

\* The edges of the status machine; start() is let in from every status.
StatusEdge(from, to) ==
    \/ to = from
    \/ to = "idle"
    \/ to = "initializing" /\ StartStep
    \/ from = "initializing" /\ to \in {"tracking", "unavailable"} /\ ~UpdateStep
    \/ from = "tracking" /\ to = "lost" /\ UpdateStep
    \/ from = "lost" /\ to = "tracking" /\ UpdateStep

\* C3: the status changes only along idle -> initializing (start),
\* initializing -> tracking, initializing -> unavailable, tracking <-> lost (update)
\* and any -> idle; update() and resetWorld() never move it out of idle,
\* initializing or unavailable.
C3_StatusEdges == [][StatusEdge(ctl.status, ctl'.status)]_vars

\* C4: no start() call ever rejects.
C4_StartNeverRejects == \A i \in 1..Len(starts) : starts[i] # "rejected"

\* C5: a start() call that completes leaves the status at tracking or unavailable
\* (by falling back to the sensors when the tracker cannot be obtained), never at
\* initializing.
C5_StartSettlesStatus ==
    [][(SettleStep /\ ctl.status = "initializing")
          => ctl'.status \in {"tracking", "unavailable"}]_vars

\* No tracker module and no device-orientation support.
NoPoseSource == ~env.module /\ ~env.sensors

\* C6: with no tracker module and no device-orientation support, a start() call
\* that completes sets the status to unavailable, update() ticks leave it there,
\* and the pose stays the identity pose throughout.
C6_UnavailableIdentityPose ==
    [][NoPoseSource =>
          /\ ctl'.pose = DEFAULT_POSE
          /\ SettleStep => ctl'.status = "unavailable"
          /\ (UpdateStep /\ ctl.status = "unavailable") => ctl'.status = "unavailable"]_vars

\* C6 witness: start() has completed on such a platform and two update() ticks
\* have run.
C6_Witness ==
    /\ NoPoseSource
    /\ ctl.status = "unavailable"
    /\ starts # <<>> /\ starts[1] = "done"
    /\ ctl.hasPose
    /\ ctl.stats.frames >= 2
    /\ ctl.pose = DEFAULT_POSE

\* C7: in every state the controller can be in, stop() leaves the status idle, no
\* tracker handle held and the listeners removed, and a second stop() changes
\* nothing more.
C7_StopIdempotent ==
    LET once == StopEffect(ctl)
    IN /\ once.status = "idle"
       /\ once.alva = 0
       /\ ~once.listening
       /\ StopEffect(once) = once

\* C7 witness: stop() has run on a controller that held a tracker and had tracked.
C7_Witness ==
    /\ ctl.status = "idle"
    /\ ctl.alva = 0
    /\ ctl.stats.mode = "alva"
    /\ ctl.stats.tracked > 0
    /\ \A i \in 1..Len(starts) : starts[i] = "done"

\* The controller is stopped: idle, no tracker handle, no listener.
Stopped(c) == c.status = "idle" /\ c.alva = 0 /\ ~c.listening

\* C8: once stopped, the controller stays stopped until start() is called again.
C8_StoppedUntilStart == [][(Stopped(ctl) /\ ~StartStep) => Stopped(ctl')]_vars

(***************************************************************************)
(* Claims about the application, checked under SpecApp.                    *)
(***************************************************************************)
\* C9: planeMapper.updateFromDepth is never invoked for a depth estimate that was
\* requested before the Stop handler ran and resolves after it.
C9_StaleDepthDiscarded == [][fed'.calls > fed.calls => ~handed'.afterStop]_vars

\* C10: the pose handed to updateFromDepth equals the tracker pose at the tick at
\* which the estimate was requested.
C10_PoseOfRequestTick == handed # Null => handed.pose = handed.reqPose

(***************************************************************************)
(* Claims about the native tracking path, checked under SpecLoss and       *)
(* SpecNative.                                                             *)
(***************************************************************************)
\* A step in which update() makes the tracker's reset() run (resetWorld() runs no
\* update()).
LossResetStep == UpdateStep /\ env'.resets > env.resets

\* C11: update() asks the tracker to reset only on a tick before which the status
\* was 'lost' and the first failed request of that loss lies more than 1500 ms back.
C11_ResetOnlyAfterSustainedLoss ==
    [][LossResetStep => /\ ctl.status = "lost"
                        /\ ctl.lostSince > 0
                        /\ now' - ctl.lostSince > LOST_RESET_MS]_vars

\* A step in which update() calls findCameraPose: each call counts once, as tracked
\* or as lost.
RequestStep ==
    /\ UpdateStep
    /\ ctl'.stats.tracked + ctl'.stats.lost > ctl.stats.tracked + ctl.stats.lost

\* A native-mode update() inside the throttle window: a tracker, a canvas and a sized
\* video, and less than 1000/60 ms since lastAlvaT.
ThrottledStep ==
    /\ UpdateStep
    /\ ctl.alva # 0 /\ ctl.canvas /\ env.video
    /\ (now' - ctl.lastAlvaT) * SLAM_TARGET_FPS < 1000

\* C12: lastAlvaT is the time of the latest findCameraPose call; a call is made only
\* 1000/60 ms or more after it; a tick inside the window leaves the status, the
\* tracked and lost counters, the last raw pose and the loss timer as they were.
C12_ThrottledRequests ==
    [][/\ RequestStep => /\ (now' - ctl.lastAlvaT) * SLAM_TARGET_FPS >= 1000
                         /\ ctl'.lastAlvaT = now'
       /\ ~RequestStep => ctl'.lastAlvaT = ctl.lastAlvaT
       /\ ThrottledStep => /\ ~RequestStep
                           /\ ctl'.status = ctl.status
                           /\ ctl'.stats.tracked = ctl.stats.tracked
                           /\ ctl'.stats.lost = ctl.stats.lost
                           /\ ctl'.lastRawPose = ctl.lastRawPose
                           /\ ctl'.lostSince = ctl.lostSince]_vars

\* Two ticks have run, the first requested a pose and the second, 10 ms later and
\* with the tracker and the video still there, did not.
C12_Witness ==
    /\ ctl.stats.frames = 2
    /\ ctl.stats.tracked + ctl.stats.lost = 1
    /\ ctl.alva # 0 /\ ctl.canvas /\ env.video
    /\ now - ctl.lastAlvaT = 10

\* A native-mode update() outside the throttle window: the tick requests a pose.
NativeRequest ==
    /\ UpdateStep
    /\ ctl.alva # 0 /\ ctl.canvas /\ env.video
    /\ (now' - ctl.lastAlvaT) * SLAM_TARGET_FPS >= 1000

\* TRUE when update() at clock time t in controller state c calls findCameraPose.
Requests(c, e, t) ==
    /\ c.alva # 0 /\ c.canvas /\ e.video
    /\ (t - c.lastAlvaT) * SLAM_TARGET_FPS >= 1000

\* C13: a native tick that requests a pose ends tracking with one more tracked when
\* the tracker returned a pose and lost with one more lost when it did not; after a
\* failure the tracker, the canvas and the video are still there, so every tick
\* past the throttle window requests a pose again.
C13_RequestOutcome ==
    [][NativeRequest =>
         /\ RequestStep
         /\ \A res \in NativeResults, dt \in NativeDts :
              ctl' = UpdateEffect(ctl, env, now', dt, res) =>
                IF IsMatrix(res.pose)
                THEN /\ ctl'.status = "tracking"
                     /\ ctl'.stats.tracked = ctl.stats.tracked + 1
                     /\ ctl'.stats.lost = ctl.stats.lost
                ELSE /\ ctl'.status = "lost"
                     /\ ctl'.stats.lost = ctl.stats.lost + 1
                     /\ ctl'.stats.tracked = ctl.stats.tracked
                     /\ \A d \in 1..LOST_RESET_MS :
                            d * SLAM_TARGET_FPS >= 1000 => Requests(ctl', env', now' + d)]_vars

\* A request that returned a pose and then a request that returned none.
C13_Witness ==
    /\ ctl.stats.tracked = 1
    /\ ctl.stats.lost = 1
    /\ ctl.status = "lost"
    /\ ctl.lastAlvaT = now

\* A native tick whose request returned no pose.
FailedRequest == RequestStep /\ ctl'.stats.lost > ctl.stats.lost

\* The pose extrapolated at clock time t from the last raw pose with the last
\* linear and angular velocity (Null when there is no raw pose yet).
Extrapolated(c, t) ==
    IF c.lastRawPose = Null \/ c.lastRawT <= 0 THEN Null
    ELSE LET dtp == Min(MaxPredictMs, Max(0, t - c.lastRawT))
         IN [position |-> VAddScaled(c.lastRawPose.position, c.linearVel, dtp, 1000),
             quaternion |->
                 IF c.angularSpeed > 0 /\ VLengthSq(c.angularAxis) > 100000
                 THEN QNormalize(QMul(c.lastRawPose.quaternion,
                                      QFromAxisAngle(c.angularAxis,
                                                     (c.angularSpeed * dtp) \div 1000)))
                 ELSE c.lastRawPose.quaternion]

\* x lies between a and b.
Between(x, a, b) == Min(a, b) <= x /\ x <= Max(a, b)

\* Pose q is pose p, or lies on the way from p to the pose target: every coordinate
\* of its position between the two, its orientation no further from the target's.
TowardTarget(p, q, target) ==
    /\ \A k \in 1..3 : Between(q.position[k], p.position[k], target.position[k])
    /\ \/ q.quaternion = p.quaternion
       \/ Abs(QDot(q.quaternion, target.quaternion)) >= Abs(QDot(p.quaternion, target.quaternion))

\* C14: on a tick where the tracker returns no pose the smoothed pose stays where it
\* was or moves toward the pose extrapolated from the last raw pose; it becomes
\* DEFAULT_POSE only if it was there or the extrapolated pose is there.
C14_FailureKeepsPose ==
    [][FailedRequest =>
         LET target == Extrapolated(ctl, now')
         IN IF target = Null
            THEN ctl'.pose = ctl.pose
            ELSE /\ TowardTarget(ctl.pose, ctl'.pose, target)
                 /\ ctl'.pose = DEFAULT_POSE => (ctl.pose = DEFAULT_POSE \/ target = DEFAULT_POSE)]_vars

\* A failed request has moved the smoothed pose off the place resetWorld() put it,
\* toward the last raw pose.
C14_Witness ==
    /\ ctl.status = "lost"
    /\ ctl.stats.lost = 1
    /\ ctl.lastAlvaT = now
    /\ ctl.lastRawPose # Null
    /\ ctl.pose.position # <<0, 0, 0>>
    /\ ctl.pose.position # ctl.lastRawPose.position

\* The tracker results that are an object but no array of 16 numbers.
MalformedResults == {res \in NativeResults : res.pose # Null /\ ~IsMatrix(res.pose)}

\* C15: a tick whose request returns a result that is no 16-element matrix ends in
\* the state a null result ends in, with the raw pose, the motion model and the
\* reported plane as they were (update() has no throwing path for it).
C15_MalformedAsNull ==
    [][NativeRequest =>
         \A res \in MalformedResults, dt \in NativeDts :
            ctl' = UpdateEffect(ctl, env, now', dt, res) =>
               /\ ctl' = UpdateEffect(ctl, env, now', dt, NoResult)
               /\ UpdateResets(ctl, env, now', res) = UpdateResets(ctl, env, now', NoResult)
               /\ ctl'.lastRawPose = ctl.lastRawPose
               /\ ctl'.lastRawT = ctl.lastRawT
               /\ ctl'.linearVel = ctl.linearVel
               /\ ctl'.angularAxis = ctl.angularAxis
               /\ ctl'.angularSpeed = ctl.angularSpeed
               /\ ctl'.planePose = ctl.planePose
               /\ ctl'.lastPoints = ctl.lastPoints]_vars

\* After a pose with a plane, a request without a usable result: the raw pose and
\* the plane of the earlier tick are still reported.
C15_Witness ==
    /\ ctl.status = "lost"
    /\ ctl.stats.tracked = 1
    /\ ctl.stats.lost = 1
    /\ ctl.lastAlvaT = now
    /\ ctl.lastRawPose = UpdatePoseFromMatrix(M1)
    /\ ctl.planePose = UpdatePoseFromMatrix(M1)
    /\ ctl.lastPoseT < now

(***************************************************************************)
(* Claims about depth buffers, checked under SpecDepth.                    *)
(***************************************************************************)
\* A depth buffer with fewer entries than width x height.
MissingData(depth) == Len(depth.depth01) < depth.width * depth.height

\* A step that is an updateFromDepth call for a buffer with missing data.
MissingDataStep == fed'.calls > fed.calls /\ MissingData(DepthBuffers[handed'.depth])

\* C16: an updateFromDepth call given a depth buffer with missing data leaves the
\* surface list as it was.
C16_MissingDataIgnored == [][MissingDataStep => surfaces' = surfaces]_vars

(***************************************************************************)
(* Claims about decay and pruning, checked under SpecMap.                  *)
(***************************************************************************)
\* A step that is an updateFromDepth call.
CallStep == fed'.calls = fed.calls + 1

\* A call that aborts: fewer than 30 points, or no plane with 40 inliers.
AbortStep == CallStep /\ plane' = Null

\* C17: a call that aborts still decays and prunes: the surface list after it is
\* decayAndPrune of the list before it.
C17_AbortStillDecays == [][AbortStep => surfaces' = DecayAndPrune(surfaces, now)]_vars

\* Surface t is surface s as an unobserved surface is carried over: the same id,
\* geometry and time last seen.
SameSurface(s, t) == s.id = t.id /\ Geometry(s) = Geometry(t) /\ s.lastSeen = t.lastSeen

\* C18: across an updateFromDepth call every surface the candidate was not fused
\* into comes back, if at all, with a confidence no higher than before; between
\* calls the list does not change.
C18_UnmatchedNeverGains ==
    [][/\ CallStep =>
            \A i \in 1..Len(surfaces) : i # existing' =>
                \A j \in 1..Len(surfaces') :
                    SameSurface(surfaces[i], surfaces'[j]) =>
                        surfaces'[j].confidence <= surfaces[i].confidence
       /\ ~CallStep => surfaces' = surfaces]_vars

\* A call has inserted a second surface while the first, last seen earlier, decayed
\* and stayed in the list.
C18_Witness ==
    /\ fed.calls >= 2
    /\ plane # Null
    /\ existing = 0
    /\ Len(surfaces) = 2
    /\ surfaces[2].lastSeen < now
    /\ surfaces[2].confidence < One

\* C19: right after every updateFromDepth call, getSurfaces() holds no surface whose
\* age exceeds maxSurfaceAgeMs or whose confidence is at or below the pruning floor.
C19_StaleSurfaceGone ==
    [][CallStep => \A j \in 1..Len(surfaces') : Keeps(surfaces'[j], now')]_vars

\* C20: every surface getSurfaces() returns has a confidence in [0, 1] that is
\* strictly above the pruning floor 0.2.
C20_ConfidenceRange ==
    \A i \in 1..Len(surfaces) :
        /\ 0 <= surfaces[i].confidence
        /\ surfaces[i].confidence <= One
        /\ surfaces[i].confidence > PruneFloor

\* A candidate has just been fused into a surface whose confidence the cap holds at
\* 1, next to a surface not seen for 5 s that repeated decay has brought below 0.3.
C20_Witness ==
    /\ existing # 0
    /\ \E i, j \in 1..Len(surfaces) :
          /\ surfaces[i].lastSeen = now
          /\ surfaces[i].confidence = One
          /\ surfaces[j].lastSeen < now
          /\ surfaces[j].confidence < MinNewConfidence
          /\ 10 * surfaces[j].confidence < 3 * One

(***************************************************************************)
(* Claims about the surface store, checked under SpecMap.                  *)
(***************************************************************************)
\* C21: in every state the list getSurfaces() returns is sorted by non-increasing
\* confidence.
C21_SortedByConfidence ==
    \A i, j \in 1..Len(surfaces) : i < j => surfaces[i].confidence >= surfaces[j].confidence

\* The latest call fused its candidate into the surface that stood second, and that
\* surface now stands first, ahead of one that has decayed since it was last seen.
C21_Witness ==
    /\ existing = 2
    /\ Len(surfaces) = 2
    /\ surfaces[1].lastSeen = now
    /\ surfaces[2].lastSeen < now
    /\ surfaces[1].confidence > surfaces[2].confidence

\* C22: the ids of the stored surfaces are pairwise distinct.
C22_DistinctIds ==
    \A i, j \in 1..Len(surfaces) : i # j => surfaces[i].id # surfaces[j].id

UnitNormal(n) == Abs(VLengthSq(n) - One * One) <= 4 * One

\* C29: in every state every stored surface has a normal of length 1, up to the
\* rounding of the fixed point.
C29_UnitNormals == \A i \in DOMAIN surfaces : UnitNormal(surfaces[i].normal)

\* A fusion has blended two different normals.
C29_Witness ==
    /\ existing # 0
    /\ plane # Null
    /\ \E i \in DOMAIN surfaces :
         /\ surfaces[i].lastSeen = now
         /\ surfaces[i].normal # plane.normal
         /\ VDot(surfaces[i].normal, plane.normal) > 0
         /\ VDot(surfaces[i].normal, plane.normal) < One * One - 4 * One

\* A call that fuses its candidate into a stored surface.
FuseStep == CallStep /\ existing' # 0

\* C30: when a call fuses a candidate of confidence 0.3 or more into a surface of
\* confidence above 0.2, that surface's confidence after the call is at least its
\* confidence before it.
C30_FusionNeverLowers ==
    [][FuseStep /\ surfaces[existing'].confidence > 200 /\ plane'.confidence >= 300 =>
         \A j \in DOMAIN surfaces' :
             surfaces'[j].id = surfaces[existing'].id =>
                 surfaces'[j].confidence >= surfaces[existing'].confidence]_vars

(***************************************************************************)
(* Claims about the controller's counters, getters and resetWorld(),       *)
(* checked under SpecSession.                                              *)
(***************************************************************************)
\* C23: no step lowers the counters frames, tracked and lost.
C23_CountersNeverDrop ==
    [][/\ ctl'.stats.frames >= ctl.stats.frames
       /\ ctl'.stats.tracked >= ctl.stats.tracked
       /\ ctl'.stats.lost >= ctl.stats.lost]_vars

\* After two ticks, one with a pose and one without, stop() has run: the counters
\* are as the ticks left them.
C23_Witness ==
    /\ ctl.status = "idle"
    /\ ctl.alva = 0
    /\ ctl.stats.frames = 2
    /\ ctl.stats.tracked = 1
    /\ ctl.stats.lost = 1

\* A step in which one of the four getters is called.
GetterStep == returned' # returned

\* C24: a getter call changes nothing of the controller (status, pose, motion model,
\* counters, tracker handle), of the start() calls in flight or of the platform, and
\* returns the value the closure holds.
C24_GettersArePure ==
    [][GetterStep =>
         /\ ctl' = ctl
         /\ UNCHANGED <<starts, env, now>>
         /\ returned'.value = CASE returned'.op = "getPose" -> ctl.pose
                                [] returned'.op = "getPlane" -> ctl.planePose
                                [] returned'.op = "getFramePoints" -> ctl.lastPoints
                                [] returned'.op = "getStats" -> ctl.stats]_vars

\* getStats() was called while the status was 'lost' and a tracker was held.
C24_Witness ==
    /\ returned # Null
    /\ returned.op = "getStats"
    /\ returned.value = ctl.stats
    /\ ctl.status = "lost"
    /\ ctl.stats.lost = 1
    /\ ctl.alva # 0

\* A step that is a resetWorld() call with an effect: on the closure state, or on
\* the tracker (whose reset() calls env.resets counts).
ResetWorldStep ==
    /\ ctl' = ResetWorldEffect(ctl)
    /\ UNCHANGED <<starts, now, returned>>
    /\ env' \in {env, [env EXCEPT !.resets = env.resets + 1]}
    /\ ctl' # ctl \/ env' # env

\* C25: resetWorld() zeroes the fallback position and velocity, calls the tracker's
\* reset() once when a tracker with a reset is held and not otherwise, and leaves
\* the status, the counters and the tracker handle as they were.
C25_ResetWorldEffect ==
    [][ResetWorldStep =>
         /\ ctl'.position = <<0, 0, 0>>
         /\ ctl'.velocity = <<0, 0, 0>>
         /\ env'.resets = env.resets + (IF ctl.alva # 0 /\ env.reset THEN 1 ELSE 0)
         /\ ctl'.status = ctl.status
         /\ ctl'.stats = ctl.stats
         /\ ctl'.alva = ctl.alva]_vars

\* resetWorld() has reached the tracker's reset() and the status is still 'lost'.
C25_Witness ==
    /\ env.resets = 1
    /\ ctl.status = "lost"
    /\ ctl.stats.lost >= 1
    /\ ctl.alva # 0
    /\ ctl.position = <<0, 0, 0>>

(***************************************************************************)
(* Numerical claims.                                                       *)
(***************************************************************************)
\* The raw pose of clock time t is the latest one the controller has received.
LatestRawIs(t, x) ==
    /\ ctl.lastRawPose # Null
    /\ ctl.lastRawT = t
    /\ ctl.lastRawPose.position = <<x, 0, 0>>

\* C26: between the raw poses x = 0 and x = 0.05 m, and between x = 0.05 and
\* x = 0.10 m, every tick leaves the x of the smoothed pose strictly between the two
\* raw values; the jitter statistics are never negative.
C26_PredictionBetweenRaws ==
    /\ (LatestRawIs(RawStart, 0) /\ now > RawStart)
          => (0 < ctl.pose.position[1] /\ ctl.pose.position[1] < 50)
    /\ (LatestRawIs(RawStart + RawGap, 50) /\ ctl.linearVel = <<500, 0, 0>>
            /\ now > RawStart + RawGap)
          => (50 < ctl.pose.position[1] /\ ctl.pose.position[1] < 100)
    /\ ctl.stats.jitterPos >= 0
    /\ ctl.stats.jitterAng >= 0

\* C27: for the cloud of 200 points on z = 0 and 50 outliers every fit returns a
\* plane whose normal is within 5 degrees of the z axis (cosine 0.996 or more), whose
\* constant is within 0.02 m of 0 and which has 190 inliers or more.
C27_ScatterFit ==
    [][CallStep =>
         /\ plane' # Null
         /\ Abs(plane'.normal[3]) >= 996
         /\ Abs(plane'.constant) <= 2000
         /\ CountOf(ScatterCloud, Inliers(ScatterCloud, plane'.normal, plane'.constant)) >= 190]_vars

Unit(q) == Abs(QDot(q, q) - One * One) <= 20 * One

\* C28: in every state the orientation getPose() returns is a unit quaternion, up to
\* the rounding of the fixed point (a norm within 1 % of 1).
C28_UnitOrientation == Unit(ctl.pose.quaternion)

(***************************************************************************)
(* Claims C31..C38                                                         *)
(***************************************************************************)
\* C31: an updateFromDepth call that aborts (fewer than 30 points, or no plane with
\* 40 inliers) inserts nothing and fuses nothing: the list keeps its length and every
\* surface keeps its id, normal, constant, center, extent and lastSeen.
C31_AbortKeepsSurfaces ==
    [][AbortStep =>
         /\ Len(surfaces') = Len(surfaces)
         /\ \A i \in DOMAIN surfaces : SameSurface(surfaces[i], surfaces'[i])]_vars

\* A call has aborted, later than the time a stored surface was last seen.
C31_Witness ==
    /\ fed.calls >= 2
    /\ plane = Null
    /\ surfaces # <<>>
    /\ surfaces[1].lastSeen < now

\* A tick whose pose request fails.
OutageRequest == ctl'.stats.lost > ctl.stats.lost

\* A tick on which update() runs the tracker's reset().
TimeoutReset == env'.resets > env.resets

PredictionStep ==
    /\ UpdateStep
    /\ ctl.alva # 0 /\ ctl.canvas
    /\ ctl'.stats.tracked = ctl.stats.tracked

\* x lies within the span of a, b and c.
Spanned(x, a, b, c) == Min(a, Min(b, c)) <= x /\ x <= Max(a, Max(b, c))

\* C33: on a prediction tick the pose stays, in every coordinate, within the span of
\* where it was, the last raw position and the last raw position moved on by 0.12 s
\* of the motion model's velocity; before a first raw pose it does not move at all.
C33_PredictionCapped ==
    [][PredictionStep =>
         IF ctl.lastRawPose = Null \/ ctl.lastRawT <= 0
         THEN ctl'.pose = ctl.pose
         ELSE \A k \in 1..3 :
                Spanned(ctl'.pose.position[k], ctl.pose.position[k],
                        ctl.lastRawPose.position[k],
                        ctl.lastRawPose.position[k]
                            + RoundDiv(ctl.linearVel[k] * MaxPredictMs, 1000))]_vars

\* A prediction tick came more than 0.12 s after the last raw pose, the motion model
\* holding a velocity, and moved the pose beyond the last raw position.
C33_Witness ==
    /\ ctl.lastRawPose # Null
    /\ now - ctl.lastRawT > MaxPredictMs
    /\ ctl.linearVel[1] > 0
    /\ ctl.pose.position[1] > ctl.lastRawPose.position[1]

\* A tick on which the tracker returns a raw pose.
RawStep == UpdateStep /\ ctl'.stats.tracked > ctl.stats.tracked

\* C34: on a tick that gets a raw pose when an earlier raw pose exists, the jitter
\* rates are blended (weight 0.1) with the distance and the angle between the two raw
\* poses, each divided by the time elapsed between them.
C34_JitterPerRawInterval ==
    [][RawStep /\ ctl.lastRawPose # Null /\ ctl.lastRawT > 0 =>
         LET elapsed == now' - ctl.lastRawT
             dp == VDistance(ctl'.lastRawPose.position, ctl.lastRawPose.position)
             dq == QAngle(ctl'.lastRawPose.quaternion, ctl.lastRawPose.quaternion)
         IN /\ ctl'.stats.jitterPos = Lerp(ctl.stats.jitterPos, (dp * 1000) \div elapsed, 1, 10)
            /\ ctl'.stats.jitterAng = Lerp(ctl.stats.jitterAng, (dq * 1000) \div elapsed, 1, 10)]_vars

\* C35: in every state no two stored surfaces pass the fusion test against each
\* other (normal dot >= 0.92 and constant difference < 0.25 m).
C35_NoTwoSimilar ==
    \A i, j \in DOMAIN surfaces : i # j => ~Similar(surfaces[i], surfaces[j])

\* C36: the confidence of a surface that is not re-observed depends on the time since
\* it was last seen only, not on the number of calls: a successful call at a clock
\* time at which a successful call was already made (some surface was last seen now)
\* leaves the confidence of every surface last seen earlier as it is.
C36_DecayByElapsedTime ==
    [][(FitStep /\ \E k \in DOMAIN surfaces : surfaces[k].lastSeen = now) =>
         \A i \in DOMAIN surfaces : (i # existing' /\ surfaces[i].lastSeen < now) =>
             \A j \in DOMAIN surfaces' :
                 SameSurface(surfaces[i], surfaces'[j]) =>
                     surfaces'[j].confidence = surfaces[i].confidence]_vars

\* An update() call: only update() moves the clock.
TickStep == now' > now

\* C37: tracked + lost never exceeds frames; every update() call adds exactly one to
\* frames and at most one to tracked + lost, and no other operation changes them.
C37_FrameAccounting ==
    /\ [](ctl.stats.tracked + ctl.stats.lost <= ctl.stats.frames)
    /\ [][TickStep =>
            /\ ctl'.stats.frames = ctl.stats.frames + 1
            /\ ctl'.stats.tracked >= ctl.stats.tracked
            /\ ctl'.stats.lost >= ctl.stats.lost
            /\ ctl'.stats.tracked + ctl'.stats.lost
                   <= ctl.stats.tracked + ctl.stats.lost + 1]_vars
    /\ [][~TickStep =>
            /\ ctl'.stats.frames = ctl.stats.frames
            /\ ctl'.stats.tracked = ctl.stats.tracked
            /\ ctl'.stats.lost = ctl.stats.lost]_vars

\* A tick made a pose request and the tick after it, inside the throttle window,
\* made none.
C37_Witness ==
    /\ ctl.stats.frames = 2
    /\ ctl.stats.tracked + ctl.stats.lost = 1
    /\ ctl.alva # 0 /\ ctl.canvas /\ env.video
    /\ now > ctl.lastAlvaT
    /\ (now - ctl.lastAlvaT) * SLAM_TARGET_FPS < 1000

\* The planes getPlane() can hold: what update() makes of a valid plane result that
\* came with a valid pose.
ReportedPlanes ==
    {UpdatePoseFromMatrix(res.plane) :
         res \in {r \in PlaneResults : IsMatrix(r.pose) /\ IsMatrix(r.plane)}}

\* C38: once getPlane() holds a plane it changes only on a tick that gets a pose, and
\* then to a plane the tracker reported; lost ticks, malformed or missing plane
\* results, resetWorld() and stop() leave it as it is.
C38_PlaneKept ==
    [][ctl.planePose # Null =>
         \/ ctl'.planePose = ctl.planePose
         \/ RawStep /\ ctl'.planePose \in ReportedPlanes]_vars

\* A plane was reported, and is still held after a stop().
C38_Witness ==
    /\ ctl.planePose # Null
    /\ ctl.status = "idle"
    /\ ctl.alva = 0
    /\ ctl.stats.tracked >= 1

====
